---- MODULE Spec2Model ----
\* Trellone front-end: the order resolver (mapOrder) and the board / active-card
\* synchronisation around the card and board mutations and the socket events.
EXTENDS Integers, Sequences, FiniteSets, TLC

\* --------------------------------------------------------------------------
\* Bounds of the model
\* --------------------------------------------------------------------------
\* longest entity collection / order list handed to mapOrder
MaxLen == 3
\* number of requests issued plus socket events delivered in one behaviour
MaxOps == 2
\* number of mounts and dependency changes of the socket effects in one behaviour
MaxRenders == 5
\* number of reaction requests issued plus card pushes received in one behaviour
MaxReactOps == 2

\* --------------------------------------------------------------------------
\* Values
\* --------------------------------------------------------------------------
\* a nullable array: JavaScript null/undefined, or an array
NullArr == [isNull |-> TRUE, val |-> <<>>]
Arr(s) == [isNull |-> FALSE, val |-> s]

\* the ids the mapOrder inputs are drawn from
Ids == {"i1", "i2", "i3"}

RECURSIVE SeqsUpTo(_, _)
SeqsUpTo(S, n) ==
  IF n = 0 THEN {<<>>}
  ELSE LET shorter == SeqsUpTo(S, n - 1)
       IN  shorter \cup {Append(s, x) : s \in {t \in shorter : Len(t) = n - 1}, x \in S}

\* the entity collection with the given ids: n is the entity's position in the
\* collection, which tells two entities of the same id apart
Entities(ids) == [k \in 1..Len(ids) |-> [_id |-> ids[k], n |-> k]]

VARIABLES
  originalArray,  \* mapOrder: the entity collection (nullable), as it is in memory
  orderArray,     \* mapOrder: the order list (nullable), as it is in memory
  key,            \* mapOrder: the key argument ("" is a falsy key)
  sortedResult,   \* mapOrder: the returned array
  threw,          \* mapOrder: TRUE when the call raised a TypeError
  mpc             \* mapOrder: "call" before the call, "done" after it

mapVars == <<originalArray, orderArray, key, sortedResult, threw, mpc>>

\* --------------------------------------------------------------------------
\* mapOrder (utils/sorts)
\* --------------------------------------------------------------------------
\* Array.prototype.indexOf: the 0-based index of the first occurrence, or -1
IndexOf(arr, v) ==
  IF \E i \in 1..Len(arr) : arr[i] = v
  THEN (CHOOSE i \in 1..Len(arr) : arr[i] = v /\ \A j \in 1..(i - 1) : arr[j] # v) - 1
  ELSE -1

\* the comparator handed to sort: orderArray.indexOf(a[key]) - orderArray.indexOf(b[key])
Compare(a, b, order) == IndexOf(order, a._id) - IndexOf(order, b._id)

\* stable insertion of e into the sorted prefix: before the first element that
\* compares greater than e
InsertSorted(sorted, e, order) ==
  LET later == {i \in 1..Len(sorted) : Compare(sorted[i], e, order) > 0}
      at    == IF later = {} THEN Len(sorted) + 1
               ELSE CHOOSE i \in later : \A j \in later : i <= j
  IN  SubSeq(sorted, 1, at - 1) \o <<e>> \o SubSeq(sorted, at, Len(sorted))

RECURSIVE SortFrom(_, _, _, _)
SortFrom(arr, order, k, acc) ==
  IF k > Len(arr) THEN acc
  ELSE SortFrom(arr, order, k + 1, InsertSorted(acc, arr[k], order))

\* Array.prototype.sort with the comparator (the sort is stable)
SortByOrder(arr, order) == SortFrom(arr, order, 1, <<>>)

\* the filtering resolver: one entity per id of the order list, orphans dropped
RECURSIVE PickInOrder(_, _, _)
PickInOrder(arr, order, k) ==
  IF k > Len(order) THEN <<>>
  ELSE LET hits == {i \in 1..Len(arr) : arr[i]._id = order[k]}
       IN  (IF hits = {} THEN <<>> ELSE <<arr[CHOOSE i \in hits : \A j \in hits : i <= j]>>)
           \o PickInOrder(arr, order, k + 1)

\* mutant: the resolver filters by the order list instead of sorting a copy
mapOrderFiltering(original, order, k) ==
  IF original.isNull \/ order.isNull \/ k = ""
  THEN [result |-> <<>>, threw |-> FALSE, original |-> original, order |-> order]
  ELSE [result |-> PickInOrder(original.val, order.val, 1), threw |-> FALSE,
        original |-> original, order |-> order]

\* mutant: the copy is returned without being sorted
mapOrderUnsorted(original, order, k) ==
  IF original.isNull \/ order.isNull \/ k = ""
  THEN [result |-> <<>>, threw |-> FALSE, original |-> original, order |-> order]
  ELSE [result |-> original.val, threw |-> FALSE, original |-> original, order |-> order]

\* mutant: no null guard and an in-place sort: spreading null raises a TypeError,
\* and the caller's array is reordered
mapOrderInPlace(original, order, k) ==
  IF original.isNull \/ order.isNull
  THEN [result |-> <<>>, threw |-> TRUE, original |-> original, order |-> order]
  ELSE [result |-> SortByOrder(original.val, order.val), threw |-> FALSE,
        original |-> Arr(SortByOrder(original.val, order.val)), order |-> order]

\* mapOrder(originalArray, orderArray, key): the returned array, whether the call
\* threw, and the two argument arrays as the call leaves them
mapOrder(original, order, k) ==
  IF original.isNull \/ order.isNull \/ k = ""
  THEN [result |-> <<>>, threw |-> FALSE, original |-> original, order |-> order]
  ELSE [result |-> SortByOrder(original.val, order.val), threw |-> FALSE,
        original |-> original, order |-> order]

MapInit ==
  /\ originalArray \in {NullArr} \cup {Arr(Entities(ids)) : ids \in SeqsUpTo(Ids, MaxLen)}
  /\ orderArray \in {NullArr} \cup {Arr(ids) : ids \in SeqsUpTo(Ids, MaxLen)}
  /\ key \in {"_id", ""}
  /\ sortedResult = <<>>
  /\ threw = FALSE
  /\ mpc = "call"

\* const sortedCards = mapOrder(column.cards, column.card_order_ids, '_id')
CallMapOrder ==
  /\ mpc = "call"
  /\ LET r == mapOrder(originalArray, orderArray, key)
     IN  /\ sortedResult' = r.result
         /\ threw' = r.threw
         /\ originalArray' = r.original
         /\ orderArray' = r.order
  /\ mpc' = "done"
  /\ UNCHANGED key



\* --------------------------------------------------------------------------
\* The entity store: board slice, card slice, requests, socket
\* --------------------------------------------------------------------------
ColumnIds == {"colA", "colB"}
BoardCardIds == {"X", "Y"}
\* "Z" is a card of some other board
CardIds == BoardCardIds \cup {"Z"}
Titles == {"t0", "t1"}

\* state.card.activeCard === null
NoCard == [_id |-> "null", column_id |-> "null", title |-> "null"]
\* state.board.activeBoard === null
NoBoard == [_id |-> "null", columns |-> <<>>, column_order_ids |-> <<>>]

NewCard(id, col, t) == [_id |-> id, column_id |-> col, title |-> t]

\* the full canonical card entities the API and the socket can deliver
ServerCards ==
  {NewCard(id, col, t) : id \in BoardCardIds, col \in ColumnIds, t \in Titles}
    \cup {NewCard("Z", "colA", "t1")}

\* the board "b1" with each card in the column `place` gives it, titles t0
BoardOf(place, colOrder) ==
  LET ordered == <<"X", "Y">>
      cardsOf(col) == SelectSeq([k \in 1..2 |-> NewCard(ordered[k], place[ordered[k]], "t0")],
                                LAMBDA c : c.column_id = col)
      idsOf(col) == SelectSeq(ordered, LAMBDA id : place[id] = col)
  IN  [_id |-> "b1",
       columns |-> [k \in 1..Len(colOrder) |->
                      [_id |-> colOrder[k], cards |-> cardsOf(colOrder[k]),
                       card_order_ids |-> idsOf(colOrder[k])]],
       column_order_ids |-> colOrder]

\* a board other than the one on screen, as a peer viewing it emits it
OtherBoard ==
  [BoardOf([id \in BoardCardIds |-> "colB"], <<"colA", "colB">>) EXCEPT !._id = "b2"]

\* the boards a SERVER_BOARD_UPDATED event can carry
ServerBoards ==
  {BoardOf([id \in BoardCardIds |-> IF id = "X" THEN col ELSE "colA"], <<"colA", "colB">>) :
     col \in ColumnIds} \cup {OtherBoard}

\* `${column._id}-placeholder-card`
PlaceholderId(columnId) ==
  CASE columnId = "colA" -> "colA-placeholder-card"
    [] columnId = "colB" -> "colB-placeholder-card"
    [] OTHER -> "null-placeholder-card"

\* generatePlaceholderCard(column)
generatePlaceholderCard(column) ==
  [_id |-> PlaceholderId(column._id), column_id |-> column._id,
   title |-> "Placeholder Card Title", FE_PlaceholderCard |-> TRUE]

\* card.FE_PlaceholderCard is truthy
IsPlaceholder(card) == "FE_PlaceholderCard" \in DOMAIN card /\ card.FE_PlaceholderCard

\* the processing of a fetched board: each empty column is given its placeholder card
InjectPlaceholders(board) ==
  [board EXCEPT !.columns =
     [k \in 1..Len(board.columns) |->
        LET column == board.columns[k]
        IN  IF column.cards = <<>>
            THEN [column EXCEPT !.cards = <<generatePlaceholderCard(column)>>,
                                !.card_order_ids = <<PlaceholderId(column._id)>>]
            ELSE column]]

\* the board as getBoardDetails loaded it
InitialBoard == InjectPlaceholders(BoardOf([id \in BoardCardIds |-> "colA"], <<"colA", "colB">>))

\* what can be typed into a title field
FormStrings == {"", " ", " t0", " t1 "}

\* String.prototype.trim on the strings of the model
Trim(str) ==
  CASE str \in {"", " "} -> ""
    [] str \in {"t0", " t0"} -> "t0"
    [] str \in {"t1", " t1 "} -> "t1"
    [] OTHER -> str

\* the ids the server gives the cards it creates, by request
CreatedCardIds == <<"N1", "N2", "N3", "N4">>

VARIABLES
  activeBoard,  \* state.board.activeBoard
  activeCard,   \* state.card.activeCard
  cardReqs,     \* the updateCard requests: [id, body, status, result]
  boardReqs,    \* the updateBoard requests: [id, body, status], and the board before the move
  emitted,      \* what socket.emit was called with, in order
  toasts,       \* the toast.error messages raised, in order
  httpCalls,    \* number of http.request calls made by the base query
  events,       \* number of socket events handled so far
  last          \* the handler that ran last: its name, card argument, request, effects

storeVars == <<activeBoard, activeCard, cardReqs, boardReqs, emitted, toasts,
               httpCalls, events, last>>

\* no delete confirmation is pending
NoConfirm == [column |-> [_id |-> "null", cards |-> <<>>, card_order_ids |-> <<>>],
              activeBoard |-> NoBoard]

VARIABLES
  newCardFormOpen, \* Column: the new card form is shown
  newCardTitle,    \* Column: the text of the new card form
  localValue,      \* ToggleFocusInput of the card title: the text of the field
  addReqs,         \* the addCard requests: body, status, and the activeBoard the handler closed over
  delReqs,         \* the deleteColumn requests: column id, status, the board before the deletion
  confirming       \* the pending delete confirmation: the column and the activeBoard closed over

uiVars == <<newCardFormOpen, newCardTitle, localValue, addReqs, delReqs, confirming>>

\* the requests issued and socket events handled so far
Ops == Len(cardReqs) + Len(boardReqs) + events + Len(addReqs) + Len(delReqs)

\* seq.find((item) => item._id === id): the index of the first match, or 0
FindById(seq, id) ==
  IF \E i \in 1..Len(seq) : seq[i]._id = id
  THEN CHOOSE i \in 1..Len(seq) : seq[i]._id = id /\ \A j \in 1..(i - 1) : seq[j]._id # id
  ELSE 0

\* mutant: a field the card already has is not overwritten
MergeCardKeepsCurrent(card, incomingCard) ==
  [k \in DOMAIN card \cup DOMAIN incomingCard |->
     IF k \in DOMAIN card THEN card[k] ELSE incomingCard[k]]

\* Object.keys(incomingCard).forEach((key) => card[key] = incomingCard[key])
MergeCard(card, incomingCard) ==
  [k \in DOMAIN card \cup DOMAIN incomingCard |->
     IF k \in DOMAIN incomingCard THEN incomingCard[k] ELSE card[k]]

\* card.slice reducers
updateActiveCard(current, card) == card
clearAndHideActiveCardModal(current) == NoCard

\* board.slice reducers
updateActiveBoard(current, board) == board

updateCardInBoard(board, incomingCard) ==
  LET ci == FindById(board.columns, incomingCard.column_id)
  IN  IF ci = 0 THEN board
      ELSE LET column == board.columns[ci]
               ki == FindById(column.cards, incomingCard._id)
           IN  IF ki = 0 THEN board
               ELSE [board EXCEPT !.columns[ci].cards[ki] = MergeCard(@, incomingCard)]

\* the copies of card id embedded in the board, as <<column index, card index>>
CopiesIn(board, id) ==
  UNION {{<<ci, ki>> : ki \in {k \in 1..Len(board.columns[ci].cards) :
                                  board.columns[ci].cards[k]._id = id}} :
         ci \in 1..Len(board.columns)}

\* the card as the board holds it (the first copy), or NoCard
CardInBoard(board, id) ==
  IF CopiesIn(board, id) = {} THEN NoCard
  ELSE LET at == CHOOSE p \in CopiesIn(board, id) : TRUE
       IN  board.columns[at[1]].cards[at[2]]

Ran(op, card, req, effects) ==
  [op |-> op, card |-> card, req |-> req, effects |-> effects, board |-> "null"]
\* a handler that was handed a board
RanBoard(op, board, req, effects) ==
  [op |-> op, card |-> NoCard, req |-> req, effects |-> effects, board |-> board._id]

StoreInit ==
  /\ activeBoard = InitialBoard
  /\ activeCard = NoCard
  /\ cardReqs = <<>>
  /\ boardReqs = <<>>
  /\ emitted = <<>>
  /\ toasts = <<>>
  /\ httpCalls = 0
  /\ events = 0
  /\ last = Ran("init", NoCard, 0, <<>>)

\* a card of the board is clicked: the card slice takes it as the active card
setActiveCard(id) ==
  /\ CopiesIn(activeBoard, id) # {}
  /\ activeCard' = updateActiveCard(activeCard, CardInBoard(activeBoard, id))
  /\ last' = Ran("setActiveCard", CardInBoard(activeBoard, id), 0, <<"updateActiveCard">>)
  /\ UNCHANGED <<activeBoard, cardReqs, boardReqs, emitted, toasts, httpCalls, events>>

\* the modal is closed: dispatch(clearAndHideActiveCardModal())
handleActiveCardModalClose ==
  /\ activeCard # NoCard
  /\ activeCard' = clearAndHideActiveCardModal(activeCard)
  /\ last' = Ran("handleActiveCardModalClose", NoCard, 0, <<"clearAndHideActiveCardModal">>)
  /\ UNCHANGED <<activeBoard, cardReqs, boardReqs, emitted, toasts, httpCalls, events>>

\* handleUpdateActiveCard up to its await: updateCardMutation({ id: activeCard?._id, body })
\* issues one http.request through the base query
handleUpdateActiveCard(title) ==
  /\ activeCard # NoCard
  /\ Ops < MaxOps
  /\ cardReqs' = Append(cardReqs, [id |-> activeCard._id, body |-> title,
                                   status |-> "pending", result |-> NoCard])
  /\ httpCalls' = httpCalls + 1
  /\ last' = Ran("handleUpdateActiveCard", NoCard, Len(cardReqs) + 1, <<"http.request">>)
  /\ UNCHANGED <<activeBoard, activeCard, boardReqs, emitted, toasts, events>>

\* the request resolves with the card in updateCardRes.result: the rest of
\* handleUpdateActiveCard runs
updateCardFulfilled(r, updatedCard) ==
  /\ cardReqs[r].status = "pending"
  /\ updatedCard._id = cardReqs[r].id
  /\ cardReqs' = [cardReqs EXCEPT ![r].status = "fulfilled", ![r].result = updatedCard]
  /\ activeCard' = updateActiveCard(activeCard, updatedCard)
  /\ activeBoard' = updateCardInBoard(activeBoard, updatedCard)
  /\ emitted' = Append(emitted, [event |-> "CLIENT_USER_UPDATED_CARD", card |-> updatedCard,
                                 board |-> NoBoard, req |-> r])
  /\ last' = Ran("updateCardFulfilled", updatedCard, r,
                 <<"updateActiveCard", "updateCardInBoard", "emit">>)
  /\ UNCHANGED <<boardReqs, toasts, httpCalls, events>>

\* mutant: the failure path goes on as if the request had succeeded with the
\* body that was sent: the title is written to the active card and emitted
updateCardRejectedApplied(r) ==
  /\ cardReqs[r].status = "pending"
  /\ cardReqs' = [cardReqs EXCEPT ![r].status = "rejected"]
  /\ toasts' = Append(toasts, [message |-> "There was an error updating the card",
                               endpoint |-> "updateCard", req |-> r])
  /\ activeCard' = IF activeCard = NoCard THEN activeCard
                   ELSE [activeCard EXCEPT !.title = cardReqs[r].body]
  /\ emitted' = Append(emitted, [event |-> "CLIENT_USER_UPDATED_CARD", card |-> activeCard',
                                 board |-> NoBoard, req |-> r])
  /\ last' = Ran("updateCardRejected", NoCard, r, <<"toast.error", "updateActiveCard", "emit">>)
  /\ UNCHANGED <<activeBoard, boardReqs, httpCalls, events>>

\* the request fails: onQueryStarted's catch raises the toast, unwrap() throws and
\* handleUpdateActiveCard ends there
updateCardRejected(r) ==
  /\ cardReqs[r].status = "pending"
  /\ cardReqs' = [cardReqs EXCEPT ![r].status = "rejected"]
  /\ toasts' = Append(toasts, [message |-> "There was an error updating the card",
                               endpoint |-> "updateCard", req |-> r])
  /\ last' = Ran("updateCardRejected", NoCard, r, <<"toast.error">>)
  /\ UNCHANGED <<activeBoard, activeCard, boardReqs, emitted, httpCalls, events>>

\* socket.on('SERVER_CARD_UPDATED', onUpdateCard)
onUpdateCard(card) ==
  /\ Ops < MaxOps
  /\ events' = events + 1
  /\ activeCard' = updateActiveCard(activeCard, card)
  /\ activeBoard' = updateCardInBoard(activeBoard, card)
  /\ last' = Ran("onUpdateCard", card, 0, <<"updateActiveCard", "updateCardInBoard">>)
  /\ UNCHANGED <<cardReqs, boardReqs, emitted, toasts, httpCalls>>

\* socket.on('SERVER_BOARD_UPDATED', onUpdateBoard)
onUpdateBoard(board) ==
  /\ Ops < MaxOps
  /\ events' = events + 1
  /\ activeBoard' = updateActiveBoard(activeBoard, board)
  /\ last' = RanBoard("onUpdateBoard", board, 0, <<"updateActiveBoard">>)
  /\ UNCHANGED <<activeCard, cardReqs, boardReqs, emitted, toasts, httpCalls>>

\* the orders the drag library can hand to onMoveColumns: the board's columns,
\* rearranged
Rearranged(columns) ==
  {[k \in 1..Len(columns) |-> columns[p[k]]] :
     p \in {q \in [1..Len(columns) -> 1..Len(columns)] :
              /\ \A i, j \in 1..Len(columns) : q[i] = q[j] => i = j
              /\ \E i \in 1..Len(columns) : q[i] # i}}

\* onMoveColumns(dndOrderedColumns): the store is updated, the request is issued
\* without being awaited, and the board is emitted
onMoveColumns(dndOrderedColumns) ==
  /\ activeBoard # NoBoard
  /\ Ops < MaxOps
  /\ LET dndOrderedColumnsIds == [k \in 1..Len(dndOrderedColumns) |-> dndOrderedColumns[k]._id]
         newActiveBoard == [activeBoard EXCEPT !.columns = dndOrderedColumns,
                                               !.column_order_ids = dndOrderedColumnsIds]
     IN  /\ activeBoard' = updateActiveBoard(activeBoard, newActiveBoard)
         /\ boardReqs' = Append(boardReqs, [id |-> newActiveBoard._id,
                                            body |-> newActiveBoard.column_order_ids,
                                            status |-> "pending", before |-> activeBoard])
         /\ httpCalls' = httpCalls + 1
         /\ emitted' = Append(emitted, [event |-> "CLIENT_USER_UPDATED_BOARD", card |-> NoCard,
                                        board |-> newActiveBoard, req |-> Len(boardReqs) + 1])
         /\ last' = Ran("onMoveColumns", NoCard, Len(boardReqs) + 1,
                        <<"updateActiveBoard", "http.request", "emit">>)
  /\ UNCHANGED <<activeCard, cardReqs, toasts, events>>

\* the updateBoard request resolves: onQueryStarted has nothing to do
updateBoardFulfilled(r) ==
  /\ boardReqs[r].status = "pending"
  /\ boardReqs' = [boardReqs EXCEPT ![r].status = "fulfilled"]
  /\ last' = Ran("updateBoardFulfilled", NoCard, r, <<>>)
  /\ UNCHANGED <<activeBoard, activeCard, cardReqs, emitted, toasts, httpCalls, events>>

\* the updateBoard request fails: onQueryStarted's catch raises the toast
updateBoardRejected(r) ==
  /\ boardReqs[r].status = "pending"
  /\ boardReqs' = [boardReqs EXCEPT ![r].status = "rejected"]
  /\ toasts' = Append(toasts, [message |-> "There was an error updating the board",
                               endpoint |-> "updateBoard", req |-> r])
  /\ last' = Ran("updateBoardRejected", NoCard, r, <<"toast.error">>)
  /\ UNCHANGED <<activeBoard, activeCard, cardReqs, emitted, httpCalls, events>>

\* --------------------------------------------------------------------------
\* The title field of the open card (ToggleFocusInput)
\* --------------------------------------------------------------------------
\* value={activeCard?.title}
ValueOf(card) == IF card = NoCard THEN "undefined" ELSE card.title

\* useEffect(..., [value]): when the value prop has changed and differs from the
\* text of the field, the field takes it
SyncLocalValue ==
  localValue' = IF /\ ValueOf(activeCard') # ValueOf(activeCard)
                   /\ ValueOf(activeCard') # "undefined"
                   /\ ValueOf(activeCard') # localValue
                THEN ValueOf(activeCard')
                ELSE localValue

UiIdle ==
  /\ newCardFormOpen = FALSE
  /\ newCardTitle = ""
  /\ localValue = "undefined"
  /\ addReqs = <<>>
  /\ delReqs = <<>>
  /\ confirming = NoConfirm

\* the card X is open in the modal, its title in the field
FormsInit ==
  /\ activeBoard = InitialBoard
  /\ activeCard = CardInBoard(InitialBoard, "X")
  /\ cardReqs = <<>>
  /\ boardReqs = <<>>
  /\ emitted = <<>>
  /\ toasts = <<>>
  /\ httpCalls = 0
  /\ events = 0
  /\ last = Ran("init", NoCard, 0, <<>>)
  /\ newCardFormOpen = FALSE
  /\ newCardTitle = ""
  /\ localValue = ValueOf(CardInBoard(InitialBoard, "X"))
  /\ addReqs = <<>>
  /\ delReqs = <<>>
  /\ confirming = NoConfirm

\* onChange={(e) => setLocalValue(e.target.value)}
setLocalValue(str) ==
  /\ activeCard # NoCard
  /\ str # localValue
  /\ localValue' = str
  /\ UNCHANGED storeVars
  /\ UNCHANGED <<newCardFormOpen, newCardTitle, addReqs, delReqs, confirming>>

\* onBlur: the field is trimmed; an empty text, or one that trims to the value,
\* is replaced by the value; any other text is handed, as typed, to
\* onChangeValue = onUpdateCardTitle, which calls handleUpdateActiveCard({ title })
triggerBlur ==
  /\ activeCard # NoCard
  /\ IF localValue = "" \/ Trim(localValue) = ValueOf(activeCard)
     THEN /\ localValue' = ValueOf(activeCard)
          /\ last' = Ran("triggerBlur", NoCard, 0, <<"return">>)
          /\ UNCHANGED <<activeBoard, activeCard, cardReqs, boardReqs, emitted, toasts,
                         httpCalls, events>>
     ELSE /\ localValue' = Trim(localValue)
          /\ handleUpdateActiveCard(localValue)
  /\ UNCHANGED <<newCardFormOpen, newCardTitle, addReqs, delReqs, confirming>>

\* --------------------------------------------------------------------------
\* The column: new card form, delete column (Column)
\* --------------------------------------------------------------------------
\* the new card form is opened or closed
toggleNewCardForm ==
  /\ activeBoard # NoBoard
  /\ newCardFormOpen' = ~newCardFormOpen
  /\ UNCHANGED storeVars
  /\ UNCHANGED <<newCardTitle, localValue, addReqs, delReqs, confirming>>

\* onChange={(e) => setNewCardTitle(e.target.value)}
setNewCardTitle(str) ==
  /\ newCardFormOpen
  /\ str # newCardTitle
  /\ newCardTitle' = str
  /\ UNCHANGED storeVars
  /\ UNCHANGED <<newCardFormOpen, localValue, addReqs, delReqs, confirming>>

\* addNewCard up to its await: an empty or blank title returns at once; otherwise
\* addCardMutation({ title: newCardTitle, column_id, board_id }) is issued
addNewCard(column) ==
  /\ newCardFormOpen
  /\ activeBoard # NoBoard
  /\ IF newCardTitle = "" \/ Trim(newCardTitle) = ""
     THEN /\ last' = Ran("addNewCard", NoCard, 0, <<"return">>)
          /\ UNCHANGED <<addReqs, httpCalls>>
     ELSE /\ Ops < MaxOps
          /\ addReqs' = Append(addReqs, [title |-> newCardTitle, column_id |-> column._id,
                                         board_id |-> activeBoard._id, status |-> "pending",
                                         activeBoard |-> activeBoard])
          /\ httpCalls' = httpCalls + 1
          /\ last' = Ran("addNewCard", NoCard, Len(addReqs) + 1, <<"http.request">>)
  /\ UNCHANGED <<activeBoard, activeCard, cardReqs, boardReqs, emitted, toasts, events>>
  /\ UNCHANGED <<newCardFormOpen, newCardTitle, localValue, delReqs, confirming>>

\* mutant: only the id of the new card is pushed, not the card
WithNewCardIdOnly(board, newCard) ==
  LET ci == FindById(board.columns, newCard.column_id)
  IN  IF ci = 0 THEN board
      ELSE [board EXCEPT !.columns[ci].card_order_ids = Append(@, newCard._id)]

\* the board with newCard added to its column: the placeholder of the column, if
\* it has one, is replaced; otherwise the card and its id are pushed
WithNewCard(board, newCard) ==
  LET ci == FindById(board.columns, newCard.column_id)
  IN  IF ci = 0 THEN board
      ELSE LET columnToUpdate == board.columns[ci]
           IN  IF \E k \in 1..Len(columnToUpdate.cards) : IsPlaceholder(columnToUpdate.cards[k])
               THEN [board EXCEPT !.columns[ci].cards = <<newCard>>,
                                  !.columns[ci].card_order_ids = <<newCard._id>>]
               ELSE [board EXCEPT !.columns[ci].cards = Append(@, newCard),
                                  !.columns[ci].card_order_ids = Append(@, newCard._id)]

\* the addCard request resolves (toast.success): the rest of addNewCard runs on
\* a clone of the activeBoard the handler closed over, and the form is reset
addCardFulfilled(r, title) ==
  /\ addReqs[r].status = "pending"
  /\ r <= Len(CreatedCardIds)
  /\ addReqs' = [addReqs EXCEPT ![r].status = "fulfilled"]
  /\ LET newCard == NewCard(CreatedCardIds[r], addReqs[r].column_id, title)
         newActiveBoard == WithNewCard(addReqs[r].activeBoard, newCard)
     IN  /\ activeBoard' = updateActiveBoard(activeBoard, newActiveBoard)
         /\ last' = Ran("addCardFulfilled", newCard, r, <<"updateActiveBoard", "reset">>)
  /\ newCardFormOpen' = FALSE
  /\ newCardTitle' = ""
  /\ UNCHANGED <<activeCard, cardReqs, boardReqs, emitted, toasts, httpCalls, events>>
  /\ UNCHANGED <<localValue, delReqs, confirming>>

\* the addCard request fails: onQueryStarted's catch raises the toast, unwrap()
\* throws and addNewCard ends there
addCardRejected(r) ==
  /\ addReqs[r].status = "pending"
  /\ addReqs' = [addReqs EXCEPT ![r].status = "rejected"]
  /\ toasts' = Append(toasts, [message |-> "There was an error adding the card",
                               endpoint |-> "addCard", req |-> r])
  /\ last' = Ran("addCardRejected", NoCard, r, <<"toast.error">>)
  /\ UNCHANGED <<activeBoard, activeCard, cardReqs, boardReqs, emitted, httpCalls, events>>
  /\ UNCHANGED <<newCardFormOpen, newCardTitle, localValue, delReqs, confirming>>

\* deleteColumn: the confirmation dialog is shown; the handler has closed over
\* the activeBoard of the render
deleteColumn(column) ==
  /\ activeBoard # NoBoard
  /\ confirming = NoConfirm
  /\ Ops < MaxOps
  /\ confirming' = [column |-> column, activeBoard |-> activeBoard]
  /\ last' = Ran("deleteColumn", NoCard, 0, <<"confirm">>)
  /\ UNCHANGED <<activeBoard, activeCard, cardReqs, boardReqs, emitted, toasts, httpCalls, events>>
  /\ UNCHANGED <<newCardFormOpen, newCardTitle, localValue, addReqs, delReqs>>

\* the dialog is cancelled: .catch(() => {})
cancelDeleteColumn ==
  /\ confirming # NoConfirm
  /\ confirming' = NoConfirm
  /\ last' = Ran("cancelDeleteColumn", NoCard, 0, <<>>)
  /\ UNCHANGED <<activeBoard, activeCard, cardReqs, boardReqs, emitted, toasts, httpCalls, events>>
  /\ UNCHANGED <<newCardFormOpen, newCardTitle, localValue, addReqs, delReqs>>

\* the board without the column, in columns and in column_order_ids
WithoutColumn(board, columnId) ==
  [board EXCEPT !.columns = SelectSeq(@, LAMBDA col : col._id # columnId),
                !.column_order_ids = SelectSeq(@, LAMBDA id : id # columnId)]

\* the dialog is confirmed: the column is removed from the store and the
\* request is issued without being awaited
confirmDeleteColumn ==
  /\ confirming # NoConfirm
  /\ LET column == confirming.column
         newActiveBoard == WithoutColumn(confirming.activeBoard, column._id)
     IN  /\ activeBoard' = updateActiveBoard(activeBoard, newActiveBoard)
         /\ delReqs' = Append(delReqs, [id |-> column._id, status |-> "pending",
                                        before |-> activeBoard])
  /\ confirming' = NoConfirm
  /\ httpCalls' = httpCalls + 1
  /\ last' = Ran("confirmDeleteColumn", NoCard, Len(delReqs) + 1,
                 <<"updateActiveBoard", "http.request">>)
  /\ UNCHANGED <<activeCard, cardReqs, boardReqs, emitted, toasts, events>>
  /\ UNCHANGED <<newCardFormOpen, newCardTitle, localValue, addReqs>>

\* the deleteColumn request resolves
deleteColumnFulfilled(r) ==
  /\ delReqs[r].status = "pending"
  /\ delReqs' = [delReqs EXCEPT ![r].status = "fulfilled"]
  /\ last' = Ran("deleteColumnFulfilled", NoCard, r, <<>>)
  /\ UNCHANGED <<activeBoard, activeCard, cardReqs, boardReqs, emitted, toasts, httpCalls, events>>
  /\ UNCHANGED <<newCardFormOpen, newCardTitle, localValue, addReqs, confirming>>

\* the deleteColumn request fails: a toast is raised, the store is not touched
deleteColumnRejected(r) ==
  /\ delReqs[r].status = "pending"
  /\ delReqs' = [delReqs EXCEPT ![r].status = "rejected"]
  /\ toasts' = Append(toasts, [message |-> "There was an error deleting the column",
                               endpoint |-> "deleteColumn", req |-> r])
  /\ last' = Ran("deleteColumnRejected", NoCard, r, <<"toast.error">>)
  /\ UNCHANGED <<activeBoard, activeCard, cardReqs, boardReqs, emitted, httpCalls, events>>
  /\ UNCHANGED <<newCardFormOpen, newCardTitle, localValue, addReqs, confirming>>

\* --------------------------------------------------------------------------
\* The socket effects: listeners of Notifications and of the board view, and
\* the join / leave effect of the board view
\* --------------------------------------------------------------------------
Sockets == {"s1", "s2"}
Profiles == {"p1", "p2"}
BoardIds == {"b1", "b2"}
Components == {"Notifications", "BoardDetails"}
Effects == {"NotificationsListeners", "BoardListeners", "BoardJoinLeave"}

\* the component an effect belongs to
ComponentOf(e) == IF e = "NotificationsListeners" THEN "Notifications" ELSE "BoardDetails"

\* the events an effect registers a handler for
EventsOf(e) ==
  CASE e = "NotificationsListeners" -> {"SERVER_USER_INVITED_TO_BOARD", "connect", "disconnect"}
    [] e = "BoardListeners" -> {"SERVER_BOARD_UPDATED", "SERVER_CARD_UPDATED"}
    [] OTHER -> {}

\* the dependency arrays of the effects
DepsOf(e) ==
  CASE e = "NotificationsListeners" -> {"dispatch", "profile", "socket"}
    [] e = "BoardListeners" -> {"dispatch", "socket"}
    [] OTHER -> {"boardId", "socket"}

\* the effects in the order React runs them
EffectOrder == <<"NotificationsListeners", "BoardJoinLeave", "BoardListeners">>

\* no effect of the kind is active
NoClosure == [run |-> 0, socket |-> "null", boardId |-> "null"]

VARIABLES
  socket,     \* state.app.socket: "null" or a socket
  profile,    \* state.auth.profile: "null" or a profile
  boardId,    \* the boardId route parameter: "null" when absent
  dispatchId, \* the identity of the dispatch function
  mounted,    \* which components are mounted
  closure,    \* per effect: the run whose callbacks are live, with the socket and boardId it closed over
  handlers,   \* the handlers registered on the sockets: [socket, event, cb]
  onLog,      \* every socket.on call made: [socket, event, cb]
  offLog,     \* every socket.off call made: [socket, event, cb]
  sockLog,    \* the CLIENT_JOIN_BOARD / CLIENT_LEAVE_BOARD emits, in order
  renders     \* number of mounts and dependency changes so far

socketVars == <<socket, profile, boardId, dispatchId, mounted, closure, handlers,
                onLog, offLog, sockLog, renders>>

\* the callbacks effect e created in its run: one function object per event
Callbacks(e, run, sock) ==
  {[socket |-> sock, event |-> ev, cb |-> <<e, ev, run>>] : ev \in EventsOf(e)}

\* the listener tables and the emit log, as the effects read and write them
Table == [handlers |-> handlers, onLog |-> onLog, offLog |-> offLog,
          sockLog |-> sockLog, closure |-> closure]

\* mutant: the cleanup hands socket.off functions created anew, not the ones
\* that were registered, so nothing is removed
CleanupOtherCallbacks(t, e) ==
  LET c == t.closure[e]
      cbs == IF c.socket = "null" THEN {} ELSE Callbacks(e, c.run + MaxRenders + 1, c.socket)
      leaves == e = "BoardJoinLeave" /\ c.boardId # "null" /\ c.socket # "null"
  IN  IF c = NoClosure THEN t
      ELSE [t EXCEPT !.handlers = @ \ cbs,
                     !.offLog = @ \cup cbs,
                     !.sockLog = IF leaves
                                 THEN Append(@, [event |-> "CLIENT_LEAVE_BOARD",
                                                 socket |-> c.socket, board |-> c.boardId])
                                 ELSE @,
                     !.closure[e] = NoClosure]

\* mutant: the cleanup emits the leave without the if (boardId) test
CleanupUnguardedLeave(t, e) ==
  LET c == t.closure[e]
      cbs == IF c.socket = "null" THEN {} ELSE Callbacks(e, c.run, c.socket)
      leaves == e = "BoardJoinLeave" /\ c.socket # "null"
  IN  IF c = NoClosure THEN t
      ELSE [t EXCEPT !.handlers = @ \ cbs,
                     !.offLog = @ \cup cbs,
                     !.sockLog = IF leaves
                                 THEN Append(@, [event |-> "CLIENT_LEAVE_BOARD",
                                                 socket |-> c.socket, board |-> c.boardId])
                                 ELSE @,
                     !.closure[e] = NoClosure]

\* the function returned by the effect: socket?.off(event, cb) for each callback
\* of the run, and socket?.emit('CLIENT_LEAVE_BOARD', boardId) if (boardId),
\* with the socket and the boardId of the run
Cleanup(t, e) ==
  LET c == t.closure[e]
      cbs == IF c.socket = "null" THEN {} ELSE Callbacks(e, c.run, c.socket)
      leaves == e = "BoardJoinLeave" /\ c.boardId # "null" /\ c.socket # "null"
  IN  IF c = NoClosure THEN t
      ELSE [t EXCEPT !.handlers = @ \ cbs,
                     !.offLog = @ \cup cbs,
                     !.sockLog = IF leaves
                                 THEN Append(@, [event |-> "CLIENT_LEAVE_BOARD",
                                                 socket |-> c.socket, board |-> c.boardId])
                                 ELSE @,
                     !.closure[e] = NoClosure]

\* the body of the effect, run with the socket and boardId of the render:
\* socket?.on(event, cb) for each callback, and
\* socket?.emit('CLIENT_JOIN_BOARD', boardId) if (boardId)
Setup(t, e, run, sock, bid) ==
  LET cbs == IF sock = "null" THEN {} ELSE Callbacks(e, run, sock)
      joins == e = "BoardJoinLeave" /\ bid # "null" /\ sock # "null"
  IN  [t EXCEPT !.handlers = @ \cup cbs,
                !.onLog = @ \cup cbs,
                !.sockLog = IF joins
                            THEN Append(@, [event |-> "CLIENT_JOIN_BOARD",
                                            socket |-> sock, board |-> bid])
                            ELSE @,
                !.closure[e] = [run |-> run, socket |-> sock, boardId |-> bid]]

\* the commit of a render: the cleanups of the effects to re-run, then their bodies
RECURSIVE CleanupAll(_, _, _)
CleanupAll(t, es, k) ==
  IF k > Len(EffectOrder) THEN t
  ELSE CleanupAll(IF EffectOrder[k] \in es THEN Cleanup(t, EffectOrder[k]) ELSE t, es, k + 1)

RECURSIVE SetupAll(_, _, _, _, _, _)
SetupAll(t, es, k, run, sock, bid) ==
  IF k > Len(EffectOrder) THEN t
  ELSE SetupAll(IF EffectOrder[k] \in es THEN Setup(t, EffectOrder[k], run, sock, bid) ELSE t,
                es, k + 1, run, sock, bid)

Commit(t, stop, start, run, sock, bid) ==
  SetupAll(CleanupAll(t, stop, 1), start, 1, run, sock, bid)

\* the tables become t
Becomes(t) ==
  /\ handlers' = t.handlers
  /\ onLog' = t.onLog
  /\ offLog' = t.offLog
  /\ sockLog' = t.sockLog
  /\ closure' = t.closure

\* the effects of the mounted components that have dep in their dependency array
Dependent(dep) == {e \in Effects : mounted[ComponentOf(e)] /\ dep \in DepsOf(e)}

SocketInit ==
  /\ socket = "null"
  /\ profile = "null"
  /\ boardId = "null"
  /\ dispatchId = 0
  /\ mounted = [c \in Components |-> FALSE]
  /\ closure = [e \in Effects |-> NoClosure]
  /\ handlers = {}
  /\ onLog = {}
  /\ offLog = {}
  /\ sockLog = <<>>
  /\ renders = 0

\* a component mounts: its effects run for the first time
mount(c) ==
  /\ ~mounted[c]
  /\ renders < MaxRenders
  /\ renders' = renders + 1
  /\ mounted' = [mounted EXCEPT ![c] = TRUE]
  /\ Becomes(Commit(Table, {}, {e \in Effects : ComponentOf(e) = c}, renders + 1, socket, boardId))
  /\ UNCHANGED <<socket, profile, boardId, dispatchId>>

\* a component unmounts: the cleanups of its effects run
unmount(c) ==
  /\ mounted[c]
  /\ mounted' = [mounted EXCEPT ![c] = FALSE]
  /\ Becomes(Commit(Table, {e \in Effects : ComponentOf(e) = c}, {}, 0, socket, boardId))
  /\ UNCHANGED <<socket, profile, boardId, dispatchId, renders>>

\* state.app.socket changes (connected, replaced or dropped)
setSocket(s) ==
  /\ s # socket
  /\ renders < MaxRenders
  /\ renders' = renders + 1
  /\ socket' = s
  /\ Becomes(Commit(Table, Dependent("socket"), Dependent("socket"), renders + 1, s, boardId))
  /\ UNCHANGED <<profile, boardId, dispatchId, mounted>>

\* state.auth.profile changes
setProfile(p) ==
  /\ p # profile
  /\ renders < MaxRenders
  /\ renders' = renders + 1
  /\ profile' = p
  /\ Becomes(Commit(Table, Dependent("profile"), Dependent("profile"), renders + 1, socket, boardId))
  /\ UNCHANGED <<socket, boardId, dispatchId, mounted>>

\* the dispatch function changes identity
changeDispatch ==
  /\ renders < MaxRenders
  /\ renders' = renders + 1
  /\ dispatchId' = 1 - dispatchId
  /\ Becomes(Commit(Table, Dependent("dispatch"), Dependent("dispatch"), renders + 1, socket, boardId))
  /\ UNCHANGED <<socket, profile, boardId, mounted>>

\* the route changes: another board, or no boardId
navigate(b) ==
  /\ b # boardId
  /\ renders < MaxRenders
  /\ renders' = renders + 1
  /\ boardId' = b
  /\ Becomes(Commit(Table, Dependent("boardId"), Dependent("boardId"), renders + 1, socket, b))
  /\ UNCHANGED <<socket, profile, dispatchId, mounted>>

\* --------------------------------------------------------------------------
\* The reaction toggle of a comment (EmojiPickerPopover)
\* --------------------------------------------------------------------------
Emojis == {"e1", "e2"}

NewReaction(id, emoji, email) == [reaction_id |-> id, emoji |-> emoji, user_email |-> email]

\* the reactions a comment can carry; "r1" and "r2" are two reactions of the
\* same user with the same emoji, the second made after the first was removed
ReactionPool ==
  <<NewReaction("r1", "e1", "me"), NewReaction("r2", "e1", "me"),
    NewReaction("r3", "e1", "peer"), NewReaction("r4", "e2", "me")>>

\* the reactions lists the server can hold for the comment: at most one
\* reaction per (emoji, user_email)
ReactionLists ==
  {SelectSeq(ReactionPool, LAMBDA r : r.reaction_id \in ids) :
     ids \in {S \in SUBSET {"r1", "r2", "r3", "r4"} : ~({"r1", "r2"} \subseteq S)}}

\* activeComment === null
NoComment == [comment_id |-> "null", reactions |-> <<>>]

VARIABLES
  commentReactions, \* the reactions of the comment in state.card.activeCard
  userEmail,        \* profile?.email: "undefined" when there is no profile
  activeComment,    \* the activeComment prop: what onSetActiveComment was last handed
  pickerOpen,       \* Boolean(anchorEmojiPickerElement)
  reactReqs,        \* the reactToCardComment requests: payload, status, and what was examined
  reactPushes,      \* number of card pushes received
  reactToasts,      \* the toast.error messages raised for reaction requests, in order
  reactUpdates      \* the updateCard requests onUpdateActiveCard issued: status, and the
                    \* body while the request is in flight

reactionVars == <<commentReactions, userEmail, activeComment, pickerOpen, reactReqs,
                  reactPushes, reactToasts, reactUpdates>>

ReactOps == Len(reactReqs) + reactPushes

\* the comment as the activity section renders it from the active card
comment == [comment_id |-> "c1", reactions |-> commentReactions]

\* the holder of activeComment keeps what it is handed
onSetActiveComment(current, c) == c

\* the onUpdateActiveCard prop is ActiveCard's handleUpdateActiveCard, handed
\* down through the activity section: called with the card the reaction request
\* returned, it issues updateCardMutation({ id, body }) with that card as body
onUpdateActiveCard(requests, updatedCard) ==
  Append(requests, [body |-> updatedCard, status |-> "pending"])

\* mutant: the existing reaction is looked up by emoji alone
currentUserReactionAnyUser(reactions, emoji, email) ==
  IF \E i \in 1..Len(reactions) : reactions[i].emoji = emoji
  THEN CHOOSE i \in 1..Len(reactions) :
         /\ reactions[i].emoji = emoji
         /\ \A j \in 1..(i - 1) : reactions[j].emoji # emoji
  ELSE 0

\* reactions?.find((reaction) => reaction.emoji === emoji && reaction.user_email === email):
\* the index of the first match, or 0
currentUserReaction(reactions, emoji, email) ==
  LET hit(i) == reactions[i].emoji = emoji /\ reactions[i].user_email = email
  IN  IF \E i \in 1..Len(reactions) : hit(i)
      THEN CHOOSE i \in 1..Len(reactions) : hit(i) /\ \A j \in 1..(i - 1) : ~hit(j)
      ELSE 0

\* the payload of the request built from the examined reactions
Payload(reactions, emoji, email) ==
  LET k == currentUserReaction(reactions, emoji, email)
  IN  [emoji |-> emoji,
       action |-> IF k # 0 THEN "Remove" ELSE "Add",
       reaction_id |-> IF k # 0 THEN reactions[k].reaction_id ELSE "undefined"]

ReactionInit ==
  /\ commentReactions \in {<<>>, <<NewReaction("r1", "e1", "me")>>, <<NewReaction("r3", "e1", "peer")>>}
  /\ userEmail \in {"me", "undefined"}
  /\ activeComment = NoComment
  /\ pickerOpen = FALSE
  /\ reactReqs = <<>>
  /\ reactPushes = 0
  /\ reactToasts = <<>>
  /\ reactUpdates = <<>>

\* the reaction button of the comment is clicked
handleEmojiPickerOpen ==
  /\ ~pickerOpen
  /\ pickerOpen' = TRUE
  /\ activeComment' = onSetActiveComment(activeComment, comment)
  /\ UNCHANGED <<commentReactions, userEmail, reactReqs, reactPushes, reactToasts, reactUpdates>>

\* the popover is dismissed
handleEmojiPickerClose ==
  /\ pickerOpen
  /\ pickerOpen' = FALSE
  /\ activeComment' = onSetActiveComment(activeComment, NoComment)
  /\ UNCHANGED <<commentReactions, userEmail, reactReqs, reactPushes, reactToasts, reactUpdates>>

\* a SERVER_CARD_UPDATED push replaces the active card: the comment's reactions
\* in the store become those of the pushed card
onUpdateCardReactions(reactions) ==
  /\ ReactOps < MaxReactOps
  /\ reactions # commentReactions
  /\ reactPushes' = reactPushes + 1
  /\ commentReactions' = reactions
  /\ UNCHANGED <<userEmail, activeComment, pickerOpen, reactReqs, reactToasts, reactUpdates>>

\* handleEmojiSelect up to its await: an emoji of the open picker is clicked
handleEmojiSelect(emoji) ==
  /\ pickerOpen
  /\ activeComment # NoComment
  /\ ReactOps < MaxReactOps
  /\ reactReqs' = Append(reactReqs,
                         [comment_id |-> activeComment.comment_id,
                          body |-> Payload(activeComment.reactions, emoji, userEmail),
                          status |-> "pending",
                          examined |-> activeComment.reactions,
                          inStore |-> commentReactions])
  /\ UNCHANGED <<commentReactions, userEmail, activeComment, pickerOpen, reactPushes, reactToasts, reactUpdates>>

\* the reactions of the comment in the card the API returns for a reaction
\* request: the user's reaction with the emoji is there after an Add, the
\* reaction named is gone after a Remove
ReactedLists(body) ==
  {rs \in ReactionLists :
     IF body.action = "Add"
     THEN \E i \in 1..Len(rs) : rs[i].emoji = body.emoji /\ rs[i].user_email = "me"
     ELSE \A i \in 1..Len(rs) : rs[i].reaction_id # body.reaction_id}

\* the request resolves with the updated card: the rest of handleEmojiSelect
\* calls onUpdateActiveCard(updatedCard)
reactToCardCommentFulfilled(r, reactions) ==
  /\ reactReqs[r].status = "pending"
  /\ reactions \in ReactedLists(reactReqs[r].body)
  /\ reactReqs' = [reactReqs EXCEPT ![r].status = "fulfilled"]
  /\ reactUpdates' = onUpdateActiveCard(reactUpdates, reactions)
  /\ UNCHANGED <<commentReactions, userEmail, activeComment, pickerOpen, reactPushes, reactToasts>>

\* the updateCard request of onUpdateActiveCard resolves with the card it was
\* sent: the rest of handleUpdateActiveCard writes the returned card to the
\* store, and the finally of handleEmojiSelect closes the picker
reactionUpdateFulfilled(u, reactions) ==
  /\ reactUpdates[u].status = "pending"
  /\ reactions = reactUpdates[u].body
  /\ reactUpdates' = [reactUpdates EXCEPT ![u].status = "fulfilled", ![u].body = <<>>]
  /\ commentReactions' = updateActiveCard(commentReactions, reactions)
  /\ pickerOpen' = FALSE
  /\ activeComment' = onSetActiveComment(activeComment, NoComment)
  /\ UNCHANGED <<userEmail, reactReqs, reactPushes, reactToasts>>

\* the updateCard request of onUpdateActiveCard fails: onQueryStarted's catch
\* raises the toast, and the finally of handleEmojiSelect closes the picker
reactionUpdateRejected(u) ==
  /\ reactUpdates[u].status = "pending"
  /\ reactUpdates' = [reactUpdates EXCEPT ![u].status = "rejected", ![u].body = <<>>]
  /\ reactToasts' = Append(reactToasts, [message |-> "There was an error updating the card",
                                         req |-> u])
  /\ pickerOpen' = FALSE
  /\ activeComment' = onSetActiveComment(activeComment, NoComment)
  /\ UNCHANGED <<commentReactions, userEmail, reactReqs, reactPushes>>

\* the request fails: onQueryStarted's catch raises the toast, unwrap() throws and
\* handleEmojiSelect ends there
reactToCardCommentRejected(r) ==
  /\ reactReqs[r].status = "pending"
  /\ reactReqs' = [reactReqs EXCEPT ![r].status = "rejected"]
  /\ reactToasts' = Append(reactToasts, [message |-> "There was an error reacting to the comment",
                                         req |-> r])
  /\ UNCHANGED <<commentReactions, userEmail, activeComment, pickerOpen, reactPushes, reactUpdates>>

\* --------------------------------------------------------------------------
\* Loading a board: the getBoardDetails thunk and the board slice's extra
\* reducers (board.slice)
\* --------------------------------------------------------------------------
\* the number of getBoardDetails dispatches followed
MaxLoads == 3

\* error.message of a failed request; "" stands for a missing message
ErrorMessages == {"", "Network Error"}

VARIABLES
  loading,          \* state.board.loading: "idle" or "pending"
  currentRequestId, \* state.board.currentRequestId: a request's id, 0 for undefined
  error,            \* state.board.error: a message, "null" for null
  loadReqs          \* the getBoardDetails requests, by requestId: boardId, status, result,
                    \* and the request that was tracked when this one was dispatched

loadVars == <<loading, currentRequestId, error, loadReqs>>

\* the board slice as the reducers see it
boardState ==
  [activeBoard |-> activeBoard, loading |-> loading,
   currentRequestId |-> currentRequestId, error |-> error]

\* reducers.clearActiveBoard
clearActiveBoard(state) ==
  [state EXCEPT !.activeBoard = NoBoard, !.error = "null"]

\* mutant: a request dispatched while another is pending takes over the tracking
getBoardDetails_pendingTakesOver(state, requestId) ==
  [state EXCEPT !.loading = "pending", !.currentRequestId = requestId, !.error = "null"]

\* addCase(getBoardDetails.pending, ...)
getBoardDetails_pending(state, requestId) ==
  IF state.loading = "idle"
  THEN [state EXCEPT !.loading = "pending", !.currentRequestId = requestId, !.error = "null"]
  ELSE state

\* mutant: the response of any request is applied while one is pending
getBoardDetails_fulfilledAnyRequest(state, requestId, processedData) ==
  IF state.loading = "pending"
  THEN [state EXCEPT !.loading = "idle", !.activeBoard = processedData,
                     !.currentRequestId = 0, !.error = "null"]
  ELSE state

\* addCase(getBoardDetails.fulfilled, ...)
getBoardDetails_fulfilled(state, requestId, processedData) ==
  IF state.loading = "pending" /\ state.currentRequestId = requestId
  THEN [state EXCEPT !.loading = "idle", !.activeBoard = processedData,
                     !.currentRequestId = 0, !.error = "null"]
  ELSE state

\* addCase(getBoardDetails.rejected, ...)
getBoardDetails_rejected(state, requestId, message) ==
  IF state.loading = "pending" /\ state.currentRequestId = requestId
  THEN [state EXCEPT !.loading = "idle", !.activeBoard = NoBoard,
                     !.currentRequestId = 0,
                     !.error = IF message = "" THEN "Failed to load" ELSE message]
  ELSE state

\* the slice takes the state the reducers returned
BoardStateBecomes(state) ==
  /\ activeBoard' = state.activeBoard
  /\ loading' = state.loading
  /\ currentRequestId' = state.currentRequestId
  /\ error' = state.error

\* no board is being loaded
LoadIdle ==
  /\ loading = "idle"
  /\ currentRequestId = 0
  /\ error = "null"
  /\ loadReqs = <<>>

\* the board slice before the first load: no board, nothing pending
LoadInit ==
  /\ LoadIdle
  /\ activeBoard = NoBoard
  /\ activeCard = NoCard
  /\ cardReqs = <<>>
  /\ boardReqs = <<>>
  /\ emitted = <<>>
  /\ toasts = <<>>
  /\ httpCalls = 0
  /\ events = 0
  /\ last = Ran("init", NoCard, 0, <<>>)

\* the boards GET /boards/:boardId can answer with
BoardsOf(id) == {b \in ServerBoards : b._id = id}

\* dispatch(getBoardDetails(boardId)): createAsyncThunk dispatches pending with
\* a fresh requestId, then the payload creator runs up to its await: it
\* dispatches clearActiveBoard and issues the GET
getBoardDetails(id) ==
  /\ Len(loadReqs) < MaxLoads
  /\ LET requestId == Len(loadReqs) + 1
     IN  /\ BoardStateBecomes(clearActiveBoard(getBoardDetails_pending(boardState, requestId)))
         /\ loadReqs' = Append(loadReqs, [boardId |-> id, status |-> "pending",
                                          result |-> NoBoard, during |-> currentRequestId])
         /\ last' = Ran("getBoardDetails", NoCard, requestId,
                        <<"pending", "clearActiveBoard", "http.get">>)
  /\ httpCalls' = httpCalls + 1
  /\ UNCHANGED <<activeCard, cardReqs, boardReqs, emitted, toasts, events>>

\* the GET of request r answers: getBoardDetails.fulfilled is dispatched
getBoardDetailsFulfilled(r, board) ==
  /\ loadReqs[r].status = "pending"
  /\ board \in BoardsOf(loadReqs[r].boardId)
  /\ loadReqs' = [loadReqs EXCEPT ![r].status = "fulfilled", ![r].result = board]
  /\ BoardStateBecomes(getBoardDetails_fulfilled(boardState, r, board))
  /\ last' = Ran("getBoardDetailsFulfilled", NoCard, r, <<"fulfilled">>)
  /\ UNCHANGED <<activeCard, cardReqs, boardReqs, emitted, toasts, httpCalls, events>>

\* the GET of request r fails: getBoardDetails.rejected is dispatched
getBoardDetailsRejected(r, message) ==
  /\ loadReqs[r].status = "pending"
  /\ loadReqs' = [loadReqs EXCEPT ![r].status = "rejected"]
  /\ BoardStateBecomes(getBoardDetails_rejected(boardState, r, message))
  /\ last' = Ran("getBoardDetailsRejected", NoCard, r, <<"rejected">>)
  /\ UNCHANGED <<activeCard, cardReqs, boardReqs, emitted, toasts, httpCalls, events>>

\* --------------------------------------------------------------------------
\* Delivery of SERVER_CARD_UPDATED events
\* --------------------------------------------------------------------------
VARIABLES
  delivered   \* the SERVER_CARD_UPDATED events in delivery order: the card each
              \* carried and the entity store it was delivered to

eventVars == <<delivered>>

\* no event was delivered
EventsIdle == delivered = <<>>

\* the entity store: the board slice's board and the card slice's card
entityStore == [activeBoard |-> activeBoard, activeCard |-> activeCard]

\* what onUpdateCard makes of the store: the two dispatches of the listener
onUpdateCardApplied(store, card) ==
  [activeBoard |-> updateCardInBoard(store.activeBoard, card),
   activeCard |-> updateActiveCard(store.activeCard, card)]

\* the socket delivers SERVER_CARD_UPDATED: the registered listener runs
SERVER_CARD_UPDATED(card) ==
  /\ onUpdateCard(card)
  /\ delivered' = Append(delivered, [card |-> card, before |-> entityStore])

\* --------------------------------------------------------------------------
\* The session: the auth slice, login, profile fetch and logout (auth.slice,
\* queries/auth, store)
\* --------------------------------------------------------------------------
\* the number of requests and cache fills followed in the session
MaxAuthOps == 3

\* apiMiddlewares: the API slices registered in the store
Apis == {"boardApi", "columnApi", "cardApi", "authApi", "userApi", "mediaApi",
         "invitationApi"}

\* export const apiSlicesToReset = [boardApi, userApi, invitationApi]
apiSlicesToReset == {"boardApi", "userApi", "invitationApi"}

VARIABLES
  auth,       \* state.auth: isAuthenticated and profile ("null" for null)
  authReqs,   \* the login, getMe and logout requests: endpoint and status
  connected,  \* the socket of the app slice is connected
  apiState,   \* the API slices whose state holds cached data
  fills       \* number of requests of other endpoints whose result was cached

authVars == <<auth, authReqs, connected, apiState, fills>>

AuthOps == Len(authReqs) + fills

\* const initialState: AuthSliceState
initialState == [profile |-> "null", isAuthenticated |-> FALSE]

\* auth.slice reducers
auth_setAuthenticated(state, payload) == [state EXCEPT !.isAuthenticated = payload]
auth_setProfile(state, payload) == [state EXCEPT !.profile = payload]
\* mutant: reset leaves the profile in place
resetKeepsProfile(state) == [state EXCEPT !.isAuthenticated = FALSE]
reset(state) == [state EXCEPT !.isAuthenticated = FALSE, !.profile = "null"]

\* app.slice reducer: the socket is disconnected
disconnectSocket(isConnected) == FALSE

\* api.util.resetApiState() of each slice in apis: its cached data is dropped
ResetApis(cached, apis) == cached \ apis

\* resetApiState(dispatch)
resetApiState(cached) == ResetApis(cached, apiSlicesToReset)

\* nobody is logged in and nothing was requested
AuthIdle ==
  /\ auth = initialState
  /\ authReqs = <<>>
  /\ connected = FALSE
  /\ apiState = {}
  /\ fills = 0

\* the app starts with the auth slice redux-persist restored (whitelist: auth):
\* nobody logged in, or a user logged in on an earlier visit; no API data is
\* cached yet
AuthInit ==
  /\ auth \in {initialState} \cup {[profile |-> p, isAuthenticated |-> TRUE] : p \in Profiles}
  /\ authReqs = <<>>
  /\ connected \in BOOLEAN
  /\ apiState = {}
  /\ fills = 0

AuthRequest(endpoint) == [endpoint |-> endpoint, status |-> "pending"]

\* loginMutation(body): POST /auth/login is issued
login ==
  /\ AuthOps < MaxAuthOps
  /\ authReqs' = Append(authReqs, AuthRequest("login"))
  /\ UNCHANGED <<auth, connected, apiState, fills>>

\* login succeeds: onQueryStarted dispatches getMe.initiate(undefined); the
\* mutation's result is held by authApi
loginFulfilled(r) ==
  /\ authReqs[r].endpoint = "login" /\ authReqs[r].status = "pending"
  /\ authReqs' = Append([authReqs EXCEPT ![r].status = "fulfilled"], AuthRequest("getMe"))
  /\ apiState' = apiState \cup {"authApi"}
  /\ UNCHANGED <<auth, connected, fills>>

\* login fails: queryFulfilled throws, the catch logs the error
loginRejected(r) ==
  /\ authReqs[r].endpoint = "login" /\ authReqs[r].status = "pending"
  /\ authReqs' = [authReqs EXCEPT ![r].status = "rejected"]
  /\ UNCHANGED <<auth, connected, apiState, fills>>

\* the getMe of a login answers without error: the then-callback dispatches
\* setAuthenticated(true) and setProfile(profile)
getMeFulfilled(r, p) ==
  /\ authReqs[r].endpoint = "getMe" /\ authReqs[r].status = "pending"
  /\ authReqs' = [authReqs EXCEPT ![r].status = "fulfilled"]
  /\ auth' = auth_setProfile(auth_setAuthenticated(auth, TRUE), p)
  /\ apiState' = apiState \cup {"userApi"}
  /\ UNCHANGED <<connected, fills>>

\* the getMe of a login answers with res.error: the then-callback does nothing
getMeRejected(r) ==
  /\ authReqs[r].endpoint = "getMe" /\ authReqs[r].status = "pending"
  /\ authReqs' = [authReqs EXCEPT ![r].status = "rejected"]
  /\ UNCHANGED <<auth, connected, apiState, fills>>

\* logoutMutation(): POST /auth/logout is issued
logout ==
  /\ AuthOps < MaxAuthOps
  /\ authReqs' = Append(authReqs, AuthRequest("logout"))
  /\ UNCHANGED <<auth, connected, apiState, fills>>

\* logout succeeds: reset(), disconnectSocket(), authApi.util.resetApiState()
\* and resetApiState(dispatch)
logoutFulfilled(r) ==
  /\ authReqs[r].endpoint = "logout" /\ authReqs[r].status = "pending"
  /\ authReqs' = [authReqs EXCEPT ![r].status = "fulfilled"]
  /\ auth' = reset(auth)
  /\ connected' = disconnectSocket(connected)
  /\ apiState' = resetApiState(ResetApis(apiState, {"authApi"}))
  /\ UNCHANGED fills

\* logout fails: queryFulfilled throws, the catch logs the error
logoutRejected(r) ==
  /\ authReqs[r].endpoint = "logout" /\ authReqs[r].status = "pending"
  /\ authReqs' = [authReqs EXCEPT ![r].status = "rejected"]
  /\ UNCHANGED <<auth, connected, apiState, fills>>

\* a request of another endpoint of API slice `api` completes: the slice's
\* state holds its result
apiRequestFulfilled(api) ==
  /\ AuthOps < MaxAuthOps
  /\ api \notin apiState
  /\ fills' = fills + 1
  /\ apiState' = apiState \cup {api}
  /\ UNCHANGED <<auth, authReqs, connected>>

\* --------------------------------------------------------------------------
\* The routes (App)
\* --------------------------------------------------------------------------
\* the number of locations the user goes to after the first one
MaxVisits == 2

\* the locations: '/', the paths of the route table, and one no route matches
AuthPaths == {"login", "register", "forgotPassword", "resetPassword"}
VerificationPaths == {"accountVerification", "forgotPasswordVerification"}
Paths == {"/", "boardDetails", "oauth", "unmatched"} \cup AuthPaths \cup VerificationPaths

VARIABLES
  location,  \* the pathname of the router
  page,      \* the page element rendered for the location, "none" before there is one
  from,      \* the location the user went to
  visits     \* the number of locations the user went to after the first one

routeVars == <<location, page, from, visits>>

\* what a route element renders
Outlet == [element |-> "Outlet", to |-> "none"]
Navigate(to) == [element |-> "Navigate", to |-> to]

ProtectedRoute(state) ==
  IF state.profile # "null" /\ state.isAuthenticated THEN Outlet ELSE Navigate("login")

\* mutant: the authentication pages are refused to who is not logged in
RejectedRouteInverted(state, pathname) ==
  IF pathname \in VerificationPaths THEN Outlet
  ELSE IF state.isAuthenticated /\ state.profile # "null" THEN Outlet ELSE Navigate("/")

RejectedRoute(state, pathname) ==
  LET isVerificationPath ==
        pathname = "accountVerification" \/ pathname = "forgotPasswordVerification"
  IN  IF isVerificationPath THEN Outlet
      ELSE IF ~state.isAuthenticated /\ state.profile = "null" THEN Outlet ELSE Navigate("/")

\* the page of a path of the route table
PageOf(pathname) ==
  CASE pathname = "boardDetails" -> "BoardDetails"
    [] pathname = "login" -> "Login"
    [] pathname = "register" -> "Register"
    [] pathname = "forgotPassword" -> "ForgotPassword"
    [] pathname = "resetPassword" -> "ResetPassword"
    [] pathname = "accountVerification" -> "AccountVerification"
    [] pathname = "forgotPasswordVerification" -> "ForgotPasswordVerification"
    [] pathname = "oauth" -> "OAuth"
    [] OTHER -> "NotFound"

\* <Routes>: the element the matched route renders for the pathname; '/' goes
\* to the board '/boards/67e4444eb85fdbf3be814557', a boardDetails path
App(state, pathname) ==
  CASE pathname = "/" -> Navigate("boardDetails")
    [] pathname = "boardDetails" -> ProtectedRoute(state)
    [] pathname \in AuthPaths \cup VerificationPaths -> RejectedRoute(state, pathname)
    [] OTHER -> Outlet

\* no location has been rendered
RoutesIdle ==
  /\ location = "/"
  /\ page = "none"
  /\ from = "/"
  /\ visits = 0

\* the app is opened at any location, with any isAuthenticated and profile
RoutesInit ==
  /\ location \in Paths
  /\ from = location
  /\ page = "none"
  /\ visits = 0
  /\ auth \in [profile : {"null", "p1"}, isAuthenticated : BOOLEAN]
  /\ authReqs = <<>>
  /\ connected = FALSE
  /\ apiState = {}
  /\ fills = 0

\* the matched route renders <Navigate>: the router goes to its target
redirect ==
  /\ page = "none"
  /\ App(auth, location).element = "Navigate"
  /\ location' = App(auth, location).to
  /\ UNCHANGED <<page, from, visits>>

\* the matched route renders its page (through <Outlet /> where it is nested)
renderPage ==
  /\ page = "none"
  /\ App(auth, location).element = "Outlet"
  /\ page' = PageOf(location)
  /\ UNCHANGED <<location, from, visits>>

\* the user goes to another location
visit(pathname) ==
  /\ page # "none"
  /\ visits < MaxVisits
  /\ location' = pathname
  /\ from' = pathname
  /\ page' = "none"
  /\ visits' = visits + 1

\* the variables of the features added after the board
otherVars == <<loadVars, eventVars, authVars, routeVars>>
OtherIdle == LoadIdle /\ EventsIdle /\ AuthIdle /\ RoutesIdle

\* --------------------------------------------------------------------------
\* Specifications
\* --------------------------------------------------------------------------
vars == <<mapVars, storeVars, socketVars, reactionVars, uiVars, otherVars>>

\* the picker of no comment is in use
ReactionIdle ==
  /\ commentReactions = <<>>
  /\ userEmail = "me"
  /\ activeComment = NoComment
  /\ pickerOpen = FALSE
  /\ reactReqs = <<>>
  /\ reactPushes = 0
  /\ reactToasts = <<>>
  /\ reactUpdates = <<>>

\* mapOrder is not called in the store specification
MapIdle ==
  /\ originalArray = NullArr
  /\ orderArray = NullArr
  /\ key = "_id"
  /\ sortedResult = <<>>
  /\ threw = FALSE
  /\ mpc = "call"

Init == StoreInit /\ MapIdle /\ SocketInit /\ ReactionIdle /\ UiIdle /\ OtherIdle

Next ==
  \/ \E id \in BoardCardIds : setActiveCard(id) /\ UNCHANGED <<mapVars, socketVars, reactionVars, uiVars, otherVars>>
  \/ handleActiveCardModalClose /\ UNCHANGED <<mapVars, socketVars, reactionVars, uiVars, otherVars>>
  \/ \E title \in Titles : handleUpdateActiveCard(title) /\ UNCHANGED <<mapVars, socketVars, reactionVars, uiVars, otherVars>>
  \/ \E r \in DOMAIN cardReqs, c \in ServerCards : updateCardFulfilled(r, c) /\ UNCHANGED <<mapVars, socketVars, reactionVars, uiVars, otherVars>>
  \/ \E r \in DOMAIN cardReqs : updateCardRejected(r) /\ UNCHANGED <<mapVars, socketVars, reactionVars, uiVars, otherVars>>
  \/ \E c \in ServerCards : onUpdateCard(c) /\ UNCHANGED <<mapVars, socketVars, reactionVars, uiVars, otherVars>>
  \/ \E b \in ServerBoards : onUpdateBoard(b) /\ UNCHANGED <<mapVars, socketVars, reactionVars, uiVars, otherVars>>
  \/ \E cols \in Rearranged(activeBoard.columns) : onMoveColumns(cols) /\ UNCHANGED <<mapVars, socketVars, reactionVars, uiVars, otherVars>>
  \/ \E r \in DOMAIN boardReqs : updateBoardFulfilled(r) /\ UNCHANGED <<mapVars, socketVars, reactionVars, uiVars, otherVars>>
  \/ \E r \in DOMAIN boardReqs : updateBoardRejected(r) /\ UNCHANGED <<mapVars, socketVars, reactionVars, uiVars, otherVars>>

Spec == Init /\ [][Next]_vars

MapNext == CallMapOrder /\ UNCHANGED <<storeVars, socketVars, reactionVars, uiVars, otherVars>>

MapOrderInit == MapInit /\ StoreInit /\ SocketInit /\ ReactionIdle /\ UiIdle /\ OtherIdle

SocketNext ==
  \/ \E c \in Components : mount(c) /\ UNCHANGED <<mapVars, storeVars, reactionVars, uiVars, otherVars>>
  \/ \E c \in Components : unmount(c) /\ UNCHANGED <<mapVars, storeVars, reactionVars, uiVars, otherVars>>
  \/ \E s \in Sockets \cup {"null"} : setSocket(s) /\ UNCHANGED <<mapVars, storeVars, reactionVars, uiVars, otherVars>>
  \/ \E p \in Profiles \cup {"null"} : setProfile(p) /\ UNCHANGED <<mapVars, storeVars, reactionVars, uiVars, otherVars>>
  \/ changeDispatch /\ UNCHANGED <<mapVars, storeVars, reactionVars, uiVars, otherVars>>
  \/ \E b \in BoardIds \cup {"null"} : navigate(b) /\ UNCHANGED <<mapVars, storeVars, reactionVars, uiVars, otherVars>>

SocketSpecInit == SocketInit /\ StoreInit /\ MapIdle /\ ReactionIdle /\ UiIdle /\ OtherIdle

SpecSocket == SocketSpecInit /\ [][SocketNext]_vars

ReactionNext ==
  \/ handleEmojiPickerOpen /\ UNCHANGED <<mapVars, storeVars, socketVars, uiVars, otherVars>>
  \/ handleEmojiPickerClose /\ UNCHANGED <<mapVars, storeVars, socketVars, uiVars, otherVars>>
  \/ \E rs \in ReactionLists : onUpdateCardReactions(rs) /\ UNCHANGED <<mapVars, storeVars, socketVars, uiVars, otherVars>>
  \/ \E e \in Emojis : handleEmojiSelect(e) /\ UNCHANGED <<mapVars, storeVars, socketVars, uiVars, otherVars>>
  \/ \E r \in DOMAIN reactReqs, rs \in ReactionLists :
       reactToCardCommentFulfilled(r, rs) /\ UNCHANGED <<mapVars, storeVars, socketVars, uiVars, otherVars>>
  \/ \E r \in DOMAIN reactReqs :
       reactToCardCommentRejected(r) /\ UNCHANGED <<mapVars, storeVars, socketVars, uiVars, otherVars>>
  \/ \E u \in DOMAIN reactUpdates :
       reactionUpdateFulfilled(u, reactUpdates[u].body) /\ UNCHANGED <<mapVars, storeVars, socketVars, uiVars, otherVars>>
  \/ \E u \in DOMAIN reactUpdates :
       reactionUpdateRejected(u) /\ UNCHANGED <<mapVars, storeVars, socketVars, uiVars, otherVars>>

ReactionSpecInit == ReactionInit /\ StoreInit /\ MapIdle /\ SocketInit /\ UiIdle /\ OtherIdle

SpecReaction == ReactionSpecInit /\ [][ReactionNext]_vars

\* the variables the store, the title field and the column do not touch
elsewhere == <<mapVars, socketVars, reactionVars, otherVars>>

\* the columns as the board view renders them
RenderedColumns == {activeBoard.columns[k] : k \in 1..Len(activeBoard.columns)}

\* the titles the server can give the card created for request r
CreatedTitles(r) == {addReqs[r].title, Trim(addReqs[r].title)}

FormsNext ==
  \/ \E str \in FormStrings : setLocalValue(str) /\ UNCHANGED elsewhere
  \/ triggerBlur /\ UNCHANGED elsewhere
  \/ \E r \in DOMAIN cardReqs, c \in ServerCards :
       /\ updateCardFulfilled(r, c) /\ SyncLocalValue
       /\ UNCHANGED <<newCardFormOpen, newCardTitle, addReqs, delReqs, confirming>>
       /\ UNCHANGED elsewhere
  \/ \E r \in DOMAIN cardReqs : updateCardRejected(r) /\ UNCHANGED <<uiVars, elsewhere>>
  \/ toggleNewCardForm /\ UNCHANGED elsewhere
  \/ \E str \in FormStrings : setNewCardTitle(str) /\ UNCHANGED elsewhere
  \/ \E column \in RenderedColumns : addNewCard(column) /\ UNCHANGED elsewhere
  \/ \E r \in DOMAIN addReqs : \E title \in CreatedTitles(r) :
       addCardFulfilled(r, title) /\ UNCHANGED elsewhere
  \/ \E r \in DOMAIN addReqs : addCardRejected(r) /\ UNCHANGED elsewhere

FormsSpecInit == FormsInit /\ MapIdle /\ SocketInit /\ ReactionIdle /\ OtherIdle

SpecForms == FormsSpecInit /\ [][FormsNext]_vars

BoardNext ==
  \/ \E c \in ServerCards : onUpdateCard(c) /\ UNCHANGED <<uiVars, elsewhere>>
  \/ \E title \in Titles : handleUpdateActiveCard(title) /\ UNCHANGED <<uiVars, elsewhere>>
  \/ \E r \in DOMAIN cardReqs, c \in ServerCards :
       updateCardFulfilled(r, c) /\ UNCHANGED <<uiVars, elsewhere>>
  \/ \E r \in DOMAIN cardReqs : updateCardRejected(r) /\ UNCHANGED <<uiVars, elsewhere>>
  \/ \E cols \in Rearranged(activeBoard.columns) :
       onMoveColumns(cols) /\ UNCHANGED <<uiVars, elsewhere>>
  \/ \E r \in DOMAIN boardReqs : updateBoardFulfilled(r) /\ UNCHANGED <<uiVars, elsewhere>>
  \/ \E r \in DOMAIN boardReqs : updateBoardRejected(r) /\ UNCHANGED <<uiVars, elsewhere>>
  \/ toggleNewCardForm /\ UNCHANGED elsewhere
  \/ setNewCardTitle("t1") /\ UNCHANGED elsewhere
  \/ \E column \in RenderedColumns : addNewCard(column) /\ UNCHANGED elsewhere
  \/ \E r \in DOMAIN addReqs : \E title \in CreatedTitles(r) :
       addCardFulfilled(r, title) /\ UNCHANGED elsewhere
  \/ \E r \in DOMAIN addReqs : addCardRejected(r) /\ UNCHANGED elsewhere
  \/ \E column \in RenderedColumns : deleteColumn(column) /\ UNCHANGED elsewhere
  \/ cancelDeleteColumn /\ UNCHANGED elsewhere
  \/ confirmDeleteColumn /\ UNCHANGED elsewhere
  \/ \E r \in DOMAIN delReqs : deleteColumnFulfilled(r) /\ UNCHANGED elsewhere
  \/ \E r \in DOMAIN delReqs : deleteColumnRejected(r) /\ UNCHANGED elsewhere

BoardSpecInit == StoreInit /\ UiIdle /\ MapIdle /\ SocketInit /\ ReactionIdle /\ OtherIdle

SpecBoard == BoardSpecInit /\ [][BoardNext]_vars

SpecMapOrder == MapOrderInit /\ [][MapNext]_vars

\* the variables loading a board does not touch
beyondLoad == <<mapVars, socketVars, reactionVars, uiVars, eventVars, authVars, routeVars>>

LoadNext ==
  \/ \E id \in BoardIds : getBoardDetails(id) /\ UNCHANGED beyondLoad
  \/ \E r \in DOMAIN loadReqs, b \in ServerBoards :
       getBoardDetailsFulfilled(r, b) /\ UNCHANGED beyondLoad
  \/ \E r \in DOMAIN loadReqs, m \in ErrorMessages :
       getBoardDetailsRejected(r, m) /\ UNCHANGED beyondLoad

LoadSpecInit == LoadInit /\ UiIdle /\ MapIdle /\ SocketInit /\ ReactionIdle /\ EventsIdle /\ AuthIdle /\ RoutesIdle

SpecLoad == LoadSpecInit /\ [][LoadNext]_vars

\* the variables the delivery of card events does not touch
beyondEvents == <<mapVars, socketVars, reactionVars, uiVars, loadVars, authVars, routeVars>>

EventsNext ==
  \/ \E id \in BoardCardIds : setActiveCard(id) /\ UNCHANGED <<eventVars, beyondEvents>>
  \/ handleActiveCardModalClose /\ UNCHANGED <<eventVars, beyondEvents>>
  \/ \E c \in ServerCards : SERVER_CARD_UPDATED(c) /\ UNCHANGED beyondEvents

EventsSpecInit == StoreInit /\ EventsIdle /\ UiIdle /\ MapIdle /\ SocketInit /\ ReactionIdle /\ LoadIdle /\ AuthIdle /\ RoutesIdle

SpecEvents == EventsSpecInit /\ [][EventsNext]_vars

\* the variables the session does not touch
beyondAuth == <<mapVars, storeVars, socketVars, reactionVars, uiVars, loadVars, eventVars, routeVars>>

AuthNext ==
  \/ login /\ UNCHANGED beyondAuth
  \/ \E r \in DOMAIN authReqs : loginFulfilled(r) /\ UNCHANGED beyondAuth
  \/ \E r \in DOMAIN authReqs : loginRejected(r) /\ UNCHANGED beyondAuth
  \/ \E r \in DOMAIN authReqs, p \in Profiles : getMeFulfilled(r, p) /\ UNCHANGED beyondAuth
  \/ \E r \in DOMAIN authReqs : getMeRejected(r) /\ UNCHANGED beyondAuth
  \/ logout /\ UNCHANGED beyondAuth
  \/ \E r \in DOMAIN authReqs : logoutFulfilled(r) /\ UNCHANGED beyondAuth
  \/ \E r \in DOMAIN authReqs : logoutRejected(r) /\ UNCHANGED beyondAuth
  \/ \E api \in Apis : apiRequestFulfilled(api) /\ UNCHANGED beyondAuth

AuthSpecInit == AuthInit /\ StoreInit /\ UiIdle /\ MapIdle /\ SocketInit /\ ReactionIdle /\ LoadIdle /\ EventsIdle /\ RoutesIdle

SpecAuth == AuthSpecInit /\ [][AuthNext]_vars

\* the variables the router does not touch
beyondRoutes == <<mapVars, storeVars, socketVars, reactionVars, uiVars, loadVars, eventVars, authVars>>

RoutesNext ==
  \/ redirect /\ UNCHANGED beyondRoutes
  \/ renderPage /\ UNCHANGED beyondRoutes
  \/ \E pathname \in Paths : visit(pathname) /\ UNCHANGED beyondRoutes

\* a location is rendered: the router follows a <Navigate> or shows the page
Rendering == (redirect \/ renderPage) /\ UNCHANGED beyondRoutes

RoutesSpecInit == RoutesInit /\ StoreInit /\ UiIdle /\ MapIdle /\ SocketInit /\ ReactionIdle /\ LoadIdle /\ EventsIdle

SpecRoutes == RoutesSpecInit /\ [][RoutesNext]_vars

\* React renders the element of the matched route whenever there is one to
\* render; the user need not go anywhere
SpecRoutesLive == RoutesSpecInit /\ [][RoutesNext]_vars /\ WF_vars(Rendering)

\* --------------------------------------------------------------------------
\* Claims about mapOrder (checked under SpecMapOrder)
\* --------------------------------------------------------------------------
\* mapOrder was called with two arrays and a truthy key
Resolved == mpc = "done" /\ ~originalArray.isNull /\ ~orderArray.isNull /\ key # ""

ResultSet == {sortedResult[i] : i \in 1..Len(sortedResult)}
OrderIds == {orderArray.val[i] : i \in 1..Len(orderArray.val)}
EntitySet == {originalArray.val[i] : i \in 1..Len(originalArray.val)}

InListOrder ==
  \A i, j \in 1..Len(sortedResult) :
    i < j => IndexOf(orderArray.val, sortedResult[i]._id)
               <= IndexOf(orderArray.val, sortedResult[j]._id)

C3_NullSafeAndPure ==
  [][mpc = "call" /\ mpc' = "done" =>
       /\ originalArray' = originalArray
       /\ orderArray' = orderArray
       /\ ~threw'
       /\ (originalArray.isNull \/ orderArray.isNull \/ originalArray.val = <<>>)
            => sortedResult' = <<>>]_vars

\* C3 witness: a call with a null order list and a collection of two entities
\* returned the empty sequence
C3_Witness ==
  /\ mpc = "done"
  /\ orderArray.isNull
  /\ ~originalArray.isNull /\ Len(originalArray.val) = 2
  /\ sortedResult = <<>> /\ ~threw

\* --------------------------------------------------------------------------
\* Claims about the card and board mutations (checked under Spec)
\* --------------------------------------------------------------------------
\* request r of reqs resolves with `status` in this step
Resolves(reqs, reqsAfter, r, status) ==
  /\ r \in DOMAIN reqs /\ r \in DOMAIN reqsAfter
  /\ reqs[r].status = "pending"
  /\ reqsAfter[r].status = status

\* the failure toasts raised for request r of the endpoint
ToastsFor(log, endpoint, r) ==
  {i \in DOMAIN log : log[i].endpoint = endpoint /\ log[i].req = r}

\* the handlers that apply a card update: the rest of handleUpdateActiveCard
\* after a fulfilled request, and the SERVER_CARD_UPDATED listener
CardUpdateOps == {"updateCardFulfilled", "onUpdateCard"}

\* C4: when an updateCard request fails, the board and ActiveCard keep their
\* values, nothing is emitted for the call (in that step or later), exactly one
\* failure toast is raised for it, and no further http request is made for it.
C4_FailedUpdateIsTerminal ==
  [][/\ \A r \in DOMAIN cardReqs :
          Resolves(cardReqs, cardReqs', r, "rejected") =>
            /\ activeBoard' = activeBoard
            /\ activeCard' = activeCard
            /\ emitted' = emitted
            /\ Len(toasts') = Len(toasts) + 1
            /\ Cardinality(ToastsFor(toasts', "updateCard", r)) = 1
            /\ httpCalls' = httpCalls
            /\ Len(cardReqs') = Len(cardReqs)
     /\ \A r \in DOMAIN cardReqs :
          cardReqs[r].status = "rejected" =>
            /\ cardReqs'[r].status = "rejected"
            /\ Cardinality(ToastsFor(toasts', "updateCard", r)) = 1
            /\ \A i \in DOMAIN emitted' :
                 ~(emitted'[i].event = "CLIENT_USER_UPDATED_CARD" /\ emitted'[i].req = r)
    ]_vars

\* C4 witness: the request to retitle the open card failed; the open card and
\* its copy in the board still have a title other than the one sent
C4_Witness ==
  /\ last.op = "updateCardRejected"
  /\ cardReqs[last.req].status = "rejected"
  /\ activeCard._id = cardReqs[last.req].id
  /\ activeCard.title # cardReqs[last.req].body
  /\ CardInBoard(activeBoard, activeCard._id).title # cardReqs[last.req].body
  /\ Len(toasts) = 1 /\ emitted = <<>>

\* C5 as stated: when an updateCard request succeeds, the returned card is
\* written to ActiveCard and to the copy of that card embedded in the board,
\* and CLIENT_USER_UPDATED_CARD is then emitted with that returned card, after
\* the two store writes.
C5_ReturnedCardWrittenThenEmitted ==
  [][\A r \in DOMAIN cardReqs :
       Resolves(cardReqs, cardReqs', r, "fulfilled") =>
         LET updatedCard == cardReqs'[r].result
         IN  /\ activeCard' = updatedCard
             /\ \A at \in CopiesIn(activeBoard, updatedCard._id) :
                  activeBoard'.columns[at[1]].cards[at[2]] = updatedCard
             /\ emitted' = Append(emitted, [event |-> "CLIENT_USER_UPDATED_CARD",
                                            card |-> updatedCard, board |-> NoBoard, req |-> r])
             /\ last'.effects[Len(last'.effects)] = "emit"
    ]_vars

\* C6 as stated: every emitted event belongs to a mutation whose request has
\* resolved successfully; nothing is emitted for a request in flight or failed.
C6_EmitOnlyAfterResolution ==
  \A i \in DOMAIN emitted :
    /\ emitted[i].event = "CLIENT_USER_UPDATED_CARD"
         => cardReqs[emitted[i].req].status = "fulfilled"
    /\ emitted[i].event = "CLIENT_USER_UPDATED_BOARD"
         => boardReqs[emitted[i].req].status = "fulfilled"

\* C7 as stated: after a completed card mutation, if ActiveCard is set and the
\* board holds a card of the same id, the two have the same field values.
C7_DualWrite ==
  (last.op \in CardUpdateOps /\ activeCard # NoCard) =>
    \A at \in CopiesIn(activeBoard, activeCard._id) :
      activeBoard.columns[at[1]].cards[at[2]] = activeCard

\* C8 as stated: applying a card update for card X updates the board's copy of X
\* in whichever column holds it, whatever column the incoming column_id names.
C8_UpdatesCopyWhereverHeld ==
  [][last'.op \in CardUpdateOps =>
       \A at \in CopiesIn(activeBoard, last'.card._id) :
         activeBoard'.columns[at[1]].cards[at[2]]
           = MergeCard(activeBoard.columns[at[1]].cards[at[2]], last'.card)
    ]_vars

\* C9 as stated: a card update for card X changes ActiveCard only when
\* ActiveCard is card X; a different or cleared ActiveCard is left unchanged.
C9_ActiveCardOnlyWhenSame ==
  [][(last'.op \in CardUpdateOps /\ activeCard' # activeCard) =>
       (activeCard # NoCard /\ activeCard._id = last'.card._id)
    ]_vars

\* C10 as stated: a card-updated event for a card that is in no column of the
\* active board leaves the active board and ActiveCard unchanged.
C10_UnknownCardIgnored ==
  [][(last'.op = "onUpdateCard" /\ CopiesIn(activeBoard, last'.card._id) = {}) =>
       (activeBoard' = activeBoard /\ activeCard' = activeCard)
    ]_vars

\* C11 as stated: a board-updated event whose board id is not the id of the
\* active board is ignored: the active board is the same after it is handled.
C11_OtherBoardIgnored ==
  [][(last'.op = "onUpdateBoard" /\ last'.board # activeBoard._id) =>
       activeBoard' = activeBoard
    ]_vars

\* --------------------------------------------------------------------------
\* Claims about the socket effects (checked under SpecSocket)
\* --------------------------------------------------------------------------
\* the handlers effect e has registered for the event and not removed
Registered(e, ev) == {h \in handlers : h.cb[1] = e /\ h.event = ev}

\* C12: every socket.on that has not been undone by a socket.off with the same
\* callback on the same socket belongs to the live run of an effect of a mounted
\* component; every socket.off was handed a callback that had been registered
\* on that socket; so each event has at most one handler per mounted listening
\* component and none for an unmounted one.
C12_OnOffSymmetric ==
  /\ offLog \subseteq onLog
  /\ handlers = onLog \ offLog
  /\ \A h \in handlers :
       /\ mounted[ComponentOf(h.cb[1])]
       /\ closure[h.cb[1]].run = h.cb[3]
       /\ closure[h.cb[1]].socket = h.socket
  /\ \A e \in Effects : \A ev \in EventsOf(e) :
       /\ Cardinality(Registered(e, ev)) <= 1
       /\ ~mounted[ComponentOf(e)] => Registered(e, ev) = {}

\* C12 witness: the listeners were registered on one socket, removed from it and
\* registered on another; both components have since been through a cleanup and
\* Notifications is now unmounted with none of its handlers left
C12_Witness ==
  /\ \E h \in offLog : h.socket = "s1" /\ h.cb[1] = "BoardListeners"
  /\ \E h \in handlers : h.socket = "s2" /\ h.cb[1] = "BoardListeners"
  /\ \E h \in offLog : h.cb[1] = "NotificationsListeners"
  /\ ~mounted["Notifications"]

\* the joins of the log that no leave has followed
OpenJoins ==
  {i \in DOMAIN sockLog : sockLog[i].event = "CLIENT_JOIN_BOARD" /\ i = Len(sockLog)}

\* C13: in the emit log every CLIENT_JOIN_BOARD(b) that is not the last emit is
\* directly followed by CLIENT_LEAVE_BOARD(b) on the same socket, so before any
\* other join; the last join is open only while the view is mounted on that
\* board and socket; every leave directly follows the join of the same board;
\* no emit carries an absent boardId, and a step that starts and ends with no
\* boardId emits nothing.
C13_JoinLeavePaired ==
  /\ [](/\ \A i \in DOMAIN sockLog :
            /\ sockLog[i].board # "null"
            /\ (sockLog[i].event = "CLIENT_JOIN_BOARD" /\ i < Len(sockLog)) =>
                 sockLog[i + 1] = [sockLog[i] EXCEPT !.event = "CLIENT_LEAVE_BOARD"]
            /\ sockLog[i].event = "CLIENT_LEAVE_BOARD" =>
                 /\ i > 1
                 /\ sockLog[i - 1] = [sockLog[i] EXCEPT !.event = "CLIENT_JOIN_BOARD"]
        /\ \A i \in OpenJoins :
            /\ mounted["BoardDetails"]
            /\ boardId = sockLog[i].board
            /\ socket = sockLog[i].socket)
  /\ [][(boardId = "null" /\ boardId' = "null") => sockLog' = sockLog]_vars

\* C13 witness: the view joined b1, the route changed to b2 (leave b1, join b2),
\* and the view was unmounted (leave b2)
C13_Witness ==
  /\ Len(sockLog) = 4
  /\ sockLog[1].event = "CLIENT_JOIN_BOARD" /\ sockLog[1].board = "b1"
  /\ sockLog[2].event = "CLIENT_LEAVE_BOARD" /\ sockLog[2].board = "b1"
  /\ sockLog[3].event = "CLIENT_JOIN_BOARD" /\ sockLog[3].board = "b2"
  /\ sockLog[4].event = "CLIENT_LEAVE_BOARD" /\ sockLog[4].board = "b2"
  /\ ~mounted["BoardDetails"]

\* --------------------------------------------------------------------------
\* Claims about the reaction toggle (checked under SpecReaction)
\* --------------------------------------------------------------------------
\* the request issued in this step, if one is
Issued(reqs, reqsAfter) == Len(reqsAfter) = Len(reqs) + 1

\* the comment's reactions hold the (emoji, email) pair
HasPair(reactions, emoji, email) ==
  \E i \in 1..Len(reactions) : reactions[i].emoji = emoji /\ reactions[i].user_email = email

\* C14 as stated: the add-or-remove decision of a reaction request is the one
\* that follows from the comment's reactions as they are in the store at the
\* moment of the click: Remove exactly when the store holds a reaction of the
\* current user with the clicked emoji.
C14_DecidedFromStoreAtClick ==
  [][Issued(reactReqs, reactReqs') =>
       LET req == reactReqs'[Len(reactReqs')]
       IN  req.body.action = "Remove"
             <=> HasPair(commentReactions, req.body.emoji, userEmail)
    ]_vars

\* C15: the request carries action Remove and the reaction_id of the existing
\* reaction exactly when the examined comment has a reaction with the clicked
\* emoji and the current user's email; otherwise it carries action Add and no
\* reaction_id.
C15_RemoveExactlyWhenPairExamined ==
  [][Issued(reactReqs, reactReqs') =>
       LET req == reactReqs'[Len(reactReqs')]
           mine == {i \in 1..Len(activeComment.reactions) :
                      /\ activeComment.reactions[i].emoji = req.body.emoji
                      /\ activeComment.reactions[i].user_email = userEmail}
       IN  /\ req.body.action \in {"Add", "Remove"}
           /\ req.body.action = "Remove" <=> mine # {}
           /\ req.body.action = "Remove" =>
                \E i \in mine : req.body.reaction_id = activeComment.reactions[i].reaction_id
           /\ req.body.action = "Add" => req.body.reaction_id = "undefined"
    ]_vars

\* C15 witness: a Remove with the id of the user's reaction was requested for a
\* comment that also has a peer's reaction with the same emoji, and an Add was
\* requested for a comment that has only the peer's reaction with that emoji
C15_Witness ==
  /\ Len(reactReqs) = 2
  /\ reactReqs[1].body = [emoji |-> "e1", action |-> "Add", reaction_id |-> "undefined"]
  /\ HasPair(reactReqs[1].examined, "e1", "peer")
  /\ reactReqs[2].body = [emoji |-> "e1", action |-> "Remove", reaction_id |-> "r2"]
  /\ HasPair(reactReqs[2].examined, "e1", "peer")

\* --------------------------------------------------------------------------
\* Claims about titles, column reorder, column deletion and the board's order
\* lists (checked under SpecForms, Spec and SpecBoard)
\* --------------------------------------------------------------------------
\* C16 as stated: no add-card request and no card-title update request carries
\* a title that is empty or consists of whitespace only.
C16_NoBlankTitleRequested ==
  /\ \A r \in DOMAIN addReqs : Trim(addReqs[r].title) # ""
  /\ \A r \in DOMAIN cardReqs : Trim(cardReqs[r].body) # ""

\* C17 as stated: when the request that persists a column reorder fails, the
\* board's columns and column_order_ids are those of before the drag.
C17_ReorderRevertedOnFailure ==
  [][\A r \in DOMAIN boardReqs :
       Resolves(boardReqs, boardReqs', r, "rejected") =>
         /\ activeBoard'.columns = boardReqs[r].before.columns
         /\ activeBoard'.column_order_ids = boardReqs[r].before.column_order_ids
    ]_vars

\* C18 as stated: when the delete-column request fails, the active board's
\* columns and column_order_ids are those of before the deletion was attempted.
C18_ColumnKeptOnFailedDelete ==
  [][\A r \in DOMAIN delReqs :
       Resolves(delReqs, delReqs', r, "rejected") =>
         /\ activeBoard'.columns = delReqs[r].before.columns
         /\ activeBoard'.column_order_ids = delReqs[r].before.column_order_ids
    ]_vars

\* C19 as stated: no column of the stored active board has a placeholder card
\* in its cards or a placeholder's id in its card_order_ids.
C19_NoPlaceholderInStore ==
  \A ci \in 1..Len(activeBoard.columns) :
    LET column == activeBoard.columns[ci]
    IN  /\ \A k \in 1..Len(column.cards) : ~IsPlaceholder(column.cards[k])
        /\ \A k \in 1..Len(column.card_order_ids) :
             column.card_order_ids[k] \notin {PlaceholderId(id) : id \in ColumnIds}

C21_AddedOnCurrentBoard ==
  [][\A r \in DOMAIN addReqs :
       Resolves(addReqs, addReqs', r, "fulfilled") =>
         activeBoard' = WithNewCard(activeBoard, last'.card)
    ]_vars

\* request q was dispatched while request r was in flight and tracked by the slice
StartedDuring(reqs, q, r) == q \in DOMAIN reqs /\ q > r /\ reqs[q].during = r

C25_LatestDispatchWins ==
  (loadReqs # <<>> /\ \A r \in DOMAIN loadReqs : loadReqs[r].status # "pending") =>
    LET latest == loadReqs[Len(loadReqs)]
    IN  IF latest.status = "fulfilled"
        THEN activeBoard = latest.result
        ELSE activeBoard = NoBoard /\ error # "null"

\* C26: loading is 'pending' exactly when currentRequestId is defined, and a
\* fulfilled or rejected action whose requestId is not the tracked one leaves
\* loading, activeBoard, currentRequestId and error as they were.
C26_TrackedRequestOnly ==
  /\ [](loading = "pending" <=> currentRequestId # 0)
  /\ [][\A r \in DOMAIN loadReqs :
          (/\ \/ Resolves(loadReqs, loadReqs', r, "fulfilled")
              \/ Resolves(loadReqs, loadReqs', r, "rejected")
           /\ r # currentRequestId) =>
            UNCHANGED <<loading, activeBoard, currentRequestId, error>>
       ]_vars

\* C26 witness: the response of a request that was never tracked arrived after
\* the tracked one had put its board in the store, and the store kept that board
C26_Witness ==
  /\ Len(loadReqs) >= 2
  /\ loadReqs[2].during = 1
  /\ loadReqs[1].status = "fulfilled" /\ loadReqs[2].status = "fulfilled"
  /\ last.op = "getBoardDetailsFulfilled" /\ last.req = 2
  /\ loadReqs[2].result # loadReqs[1].result
  /\ activeBoard = loadReqs[1].result
  /\ loading = "idle" /\ currentRequestId = 0

\* the last two events were delivered one right after the other
LastTwoDelivered ==
  LET n == Len(delivered)
  IN  /\ n >= 2
      /\ last.op = "onUpdateCard"
      /\ delivered[n].before = onUpdateCardApplied(delivered[n - 1].before, delivered[n - 1].card)

\* C23 as stated: handling two card-updated events for two different cards
\* yields the same entity store, ActiveCard included, whichever of the two is
\* delivered first.
C23_DifferentCardsCommute ==
  LET n == Len(delivered)
  IN  (LastTwoDelivered /\ delivered[n - 1].card._id # delivered[n].card._id) =>
        entityStore = onUpdateCardApplied(
                        onUpdateCardApplied(delivered[n - 1].before, delivered[n].card),
                        delivered[n - 1].card)

\* the board holds card `card` in the column the card names
HeldWhereNamed(board, card) ==
  \E at \in CopiesIn(board, card._id) : board.columns[at[1]]._id = card.column_id

C29_LogoutClearsEverything ==
  [][\A r \in DOMAIN authReqs :
       /\ (Resolves(authReqs, authReqs', r, "fulfilled") /\ authReqs[r].endpoint = "logout") =>
            /\ auth' = initialState
            /\ connected' = FALSE
            /\ \A api \in Apis : api \notin apiState'
       /\ (Resolves(authReqs, authReqs', r, "rejected") /\ authReqs[r].endpoint = "logout") =>
            UNCHANGED <<auth, connected, apiState>>
    ]_vars

\* protected content is rendered only to an authenticated user with a profile
ProtectedOnlyWhenLoggedIn ==
  page = "BoardDetails" => (auth.profile # "null" /\ auth.isAuthenticated)

\* C28 as stated: for every combination of isAuthenticated and profile and
\* every starting route, the chain of redirects ends at a rendered page, and
\* protected content is rendered only when profile is non-null and
\* isAuthenticated is true.
C28_RedirectsTerminate ==
  /\ (page = "none") ~> (page # "none")
  /\ []ProtectedOnlyWhenLoggedIn

\* C28 amended: when isAuthenticated is true exactly when profile is non-null,
\* the chain of redirects from every starting route ends at a rendered page;
\* protected content is rendered only when profile is non-null and
\* isAuthenticated is true.
C28_RedirectsTerminateWhenConsistent ==
  /\ ((auth.isAuthenticated <=> auth.profile # "null") /\ page = "none") ~> (page # "none")
  /\ []ProtectedOnlyWhenLoggedIn

\* C28 witness: a logged-out user went to '/' and, through the board route and
\* its redirect, was shown the login page
C28_Witness ==
  /\ ~auth.isAuthenticated /\ auth.profile = "null"
  /\ from = "/"
  /\ location = "login"
  /\ page = "Login"

\* --------------------------------------------------------------------------
\* Claim about the requests of a reaction (checked under SpecReaction)
\* --------------------------------------------------------------------------
\* the requests made to the API from the reaction picker
ApiRequests(reacts, updates) == Len(reacts) + Len(updates)

\* C30 as stated: one emoji selection results in exactly one request to the
\* API, the reaction request; applying the card it returns to ActiveCard and to
\* the board issues no further request.
C30_OneRequestPerSelection ==
  [][IF Issued(reactReqs, reactReqs')
     THEN ApiRequests(reactReqs', reactUpdates') = ApiRequests(reactReqs, reactUpdates) + 1
     ELSE ApiRequests(reactReqs', reactUpdates') = ApiRequests(reactReqs, reactUpdates)
    ]_vars

====
